---- MODULE Spec2Model ----
(***************************************************************************)
(* RiskyRag scraper: the fetch-cache-retry layer (scrapers/base.py), the   *)
(* temporal filter (processors/llm_filter.py) and the pipeline             *)
(* (processors/pipeline.py), with the snippet hash (core/types.py), the    *)
(* chunker (processors/chunking.py) and the scrape stream                  *)
(* (scrapers/constantinople.py).                                           *)
(*                                                                         *)
(* The program runs on one asyncio event loop: code between two awaits is  *)
(* atomic, so every action below is the code from one suspension point to  *)
(* the next.  The loop clock is read only to take differences, so time is  *)
(* kept as those differences, in whole ticks: the time elapsed since the   *)
(* last request time (all values from min_interval on behave alike and are *)
(* kept as min_interval) and the time left of every pending sleep.         *)
(***************************************************************************)
EXTENDS Integers, Sequences, FiniteSets, TLC

(***************************************************************************)
(* Bounds of the model.                                                    *)
(***************************************************************************)
NCallers == 2
MaxChunks == 6
MaxEvents == 2
MaxChunksPerEvent == 2
MaxBatchSize == 2
LongList == 11

(***************************************************************************)
(* Values.                                                                 *)
(***************************************************************************)
None == "None"
Callers == 1..NCallers
URLs == {"u1", "u2"}
\* Response bodies are character sequences; CR and LF are the two line-end
\* characters, "a" stands for any other character.
Bodies == {<<"a">>, <<"a", "CR", "LF">>}
\* The body the server holds for each URL: one page with "\r\n" line ends,
\* one without.
server == [u \in URLs |-> IF u = "u1" THEN <<"a", "CR", "LF">> ELSE <<"a">>]
\* A file of the cache directory: absent, or present with its characters.
NoFile == [exists |-> FALSE, text |-> <<>>]
File(t) == [exists |-> TRUE, text |-> t]
\* What a call returns or raises; NoDoc is Python's None for a document.
NoDoc == [kind |-> "None", html |-> <<>>]
Doc(b) == [kind |-> "doc", html |-> b]
Raised(e) == [kind |-> e, html |-> <<>>]
\* The exceptions of a request attempt.
HTTPStatusError == "HTTPStatusError"
TimeoutException == "TimeoutException"
OtherError == "OtherError"
RetryError == "RetryError"

\* ------------------------------------------------------------------------
\* BaseScraper: class attributes
\* ------------------------------------------------------------------------
\* The values max_concurrent_requests is set to by WikidataScraper (1) and
\* by ConstantinopleScraper, CivilWarScraper and others (2).
ConcurrencyConfigs == {1, 2}
\* min_interval = 1.0 / requests_per_second, for requests_per_second = 0.5,
\* in ticks of one second.
min_interval == 2
\* The retry decorator's literals: stop_after_attempt(3),
\* wait_exponential(multiplier=1, min=1, max=30).
stop_after_attempt == 3
wait_multiplier == 1
wait_min == 1
wait_max == 30
\* The values the class attribute max_retries may be configured to: the
\* default 3, and an override below and above it.
RetryConfigs == {2, 3}

VARIABLES
    \* --- BaseScraper instance and its environment
    use_cache,          \* self.use_cache
    max_retries,        \* self.max_retries (class attribute, overridable)
    max_concurrent_requests, \* self.max_concurrent_requests (likewise)
    cache_works,        \* environment: the cache directory never fails
    sem,                \* self._semaphore: free permits
    elapsed,            \* loop.time() - self._last_request_time
    cache,              \* the files of cache_dir, by URL (_get_cache_path)
    \* --- each fetch call
    fpc,                \* where the call is
    furl,               \* its url argument
    attempt_number,     \* tenacity's attempt number
    timer,              \* the time left of the call's pending sleep
    result,             \* what the call returned or raised
    \* --- history
    netCount,           \* network requests issued by the call
    cacheOp,            \* the cache lookup and write of the latest step, and
                        \* the exception its request ended with
    stored,             \* per URL: a fetch wrote the whole entry
    requested,          \* a network request has been issued
    minGap              \* smallest time between two consecutive requests

VARIABLES
    \* --- LLMFilter instance and one filter_chunks call
    chunks,             \* the chunks argument: their number (chunk k holds Content(k))
    lpc,                \* where filter_chunks is
    batch_start,        \* i of "for i in range(0, len(chunks), batch_size)"
    results,            \* the results list: <<chunk index, filtered content>>
    lsem,               \* self._semaphore: free permits
    lelapsed,           \* loop.time() - self._last_request_time
    tpc,                \* per chunk: where its filter_chunk task is
    ttimer,             \* per chunk: the time left of the task's sleep
    tresult,            \* per chunk: the FilterResult its task returned
    skip_filter,        \* the skip_filter argument
    \* --- history
    lrequested,         \* an external filter request has been issued
    submitted,          \* per chunk: the external requests issued for it
    lminGap,            \* smallest time between two consecutive requests
    failed,             \* the chunks whose external call raised
    overtaken           \* a call ended before one created earlier in its batch

lvars == <<chunks, lpc, batch_start, results, lsem, lelapsed, tpc, ttimer,
           tresult, skip_filter, lrequested, submitted, lminGap, failed,
           overtaken>>

VARIABLES
    \* --- Pipeline instance and one run
    dry_run,            \* the dry_run argument of run
    batch_size,         \* self.batch_size
    use_llm_filter,     \* self.use_llm_filter
    ppc,                \* where run is
    events,             \* the events list: its length
    all_chunks,         \* the all_chunks list: its length (chunks 1..n)
    filtered_chunks,    \* the chunks retained by phase 3, in list order
    pidx,               \* the position of the phase 4 loop in filtered_chunks
    batch,              \* the batch list: the snippets (by chunk) not yet sent
    stats,              \* PipelineStats
    \* --- history
    uploads,            \* the batches handed to batchAddSnippets, in call order
    responses,          \* per chunk: how its external filter call ended
    kept_content,       \* per retained chunk: the content paired with it
    storage,            \* what the _upload_batch calls returned, summed
    embedded            \* the chunks embedded, in the order of embedding

pvars == <<dry_run, batch_size, use_llm_filter, ppc, events, all_chunks,
           filtered_chunks, pidx, batch, stats, uploads, responses,
           kept_content, storage, embedded>>

VARIABLES
    \* --- the ProcessedSnippets of a run and the storage collaborator
    snippets,           \* the ProcessedSnippet objects constructed so far
    store,              \* the storage: the contentHash values it holds
    sbatch,             \* the batch argument of the latest _upload_batch call
    sreply,             \* what the latest _upload_batch call returned
    \* --- history
    sent,               \* the <<content, event_date>> pairs uploaded before
                        \* the latest call
    ncalls              \* the number of _upload_batch calls

svars == <<snippets, store, sbatch, sreply, sent, ncalls>>

VARIABLES
    \* --- TextChunker instance and one chunk_event call
    chunk_size,         \* self.chunk_size
    chunk_overlap,      \* self.chunk_overlap
    min_chunk_size,     \* self.min_chunk_size
    event,              \* the event argument
    cpc,                \* where chunk_event is
    returned            \* the list chunk_event returned

cvars == <<chunk_size, chunk_overlap, min_chunk_size, event, cpc, returned>>

VARIABLES
    \* --- one run's scrape and filter phases: the scraper's stream and the
    \* --- HTTP clients
    limit,              \* the limit argument of run and of scrape
    rpc,                \* where run is
    scraper_client,     \* BaseScraper._client
    llm_client,         \* LLMFilter._client
    url_index,          \* the sources the loop of scrape has finished with
    doc_events,         \* the parsed events of the current source not yet visited
    count,              \* count of scrape
    scraped,            \* the events list of run
    raising,            \* the exception that is leaving the phase, if any
    \* --- history
    fetches,            \* the fetch calls of scrape, in the order made
    url_failed          \* the sources whose fetch or parse raised, and where

rvars == <<limit, rpc, scraper_client, llm_client, url_index, doc_events, count,
           scraped, raising, fetches, url_failed>>

fenv == <<use_cache, max_retries, max_concurrent_requests, cache_works>>
fcall == <<fpc, furl, attempt_number, timer, result>>
fhist == <<netCount, cacheOp, stored, requested, minGap>>
fvars == <<fenv, sem, elapsed, cache, fcall, fhist>>

vars == <<fvars, lvars, pvars, svars, cvars, rvars>>
nonfetch == <<lvars, pvars, svars, cvars, rvars>>
nonfilter == <<fvars, pvars, svars, cvars, rvars>>
nonpipeline == <<fvars, lvars, svars, cvars, rvars>>
nonstorage == <<fvars, lvars, pvars, cvars, rvars>>
nonchunker == <<fvars, lvars, pvars, svars, rvars>>
nonscrape == <<fvars, lvars, pvars, svars, cvars>>

Max(a, b) == IF a >= b THEN a ELSE b
Min(a, b) == IF a <= b THEN a ELSE b

\* ------------------------------------------------------------------------
\* Text files: Path.write_text / Path.read_text in text mode
\* ------------------------------------------------------------------------
\* os.linesep of the platform (POSIX).
linesep == <<"LF">>

RECURSIVE WriteText(_)
\* write_text: every "\n" is written as os.linesep.
WriteText(s) ==
    IF s = <<>> THEN <<>>
    ELSE (IF Head(s) = "LF" THEN linesep ELSE <<Head(s)>>) \o WriteText(Tail(s))

RECURSIVE ReadText(_)
\* read_text: universal newlines, "\r\n" and "\r" are read as "\n".
ReadText(s) ==
    IF s = <<>> THEN <<>>
    ELSE IF Head(s) = "CR"
         THEN IF Len(s) >= 2 /\ s[2] = "LF"
              THEN <<"LF">> \o ReadText(SubSeq(s, 3, Len(s)))
              ELSE <<"LF">> \o ReadText(Tail(s))
         ELSE <<Head(s)>> \o ReadText(Tail(s))

\* ------------------------------------------------------------------------
\* BaseScraper.__init__
\* ------------------------------------------------------------------------
\* asyncio.Semaphore(self.max_concurrent_requests)
InitialPermits == max_concurrent_requests

\* No cache operation and no exception in a step.
NoCacheOp == [by |-> 0, read |-> "none", write |-> "none", raised |-> "none"]

\* The scraper as configured, in its environment.
FetchConfig ==
    /\ use_cache \in BOOLEAN
    /\ max_retries \in RetryConfigs
    /\ max_concurrent_requests \in ConcurrencyConfigs
    /\ cache_works \in BOOLEAN

\* One configuration, for the specifications in which no fetch is made.
FetchDefaults ==
    /\ use_cache = TRUE
    /\ max_retries = 3
    /\ max_concurrent_requests = 2
    /\ cache_works = TRUE

FetchConstructed ==
    /\ sem = InitialPermits
    \* _last_request_time = 0.0, and the loop clock (a monotonic clock) reads
    \* more than min_interval
    /\ elapsed = min_interval
    /\ cache = [u \in URLs |-> NoFile]
    /\ fpc = [c \in Callers |-> "idle"]
    /\ furl = [c \in Callers |-> None]
    /\ attempt_number = [c \in Callers |-> 0]
    /\ timer = [c \in Callers |-> 0]
    /\ result = [c \in Callers |-> NoDoc]
    /\ netCount = [c \in Callers |-> 0]
    /\ cacheOp = NoCacheOp
    /\ stored = [u \in URLs |-> FALSE]
    /\ requested = FALSE
    /\ minGap = min_interval

FetchInit == FetchConfig /\ FetchConstructed

\* ------------------------------------------------------------------------
\* BaseScraper._rate_limit and the request that follows it
\* ------------------------------------------------------------------------
\* Line 99, self._last_request_time = now, then client.get (line 127): no
\* await lies between the two.
IssueRequest(c) ==
    /\ elapsed' = 0
    /\ fpc' = [fpc EXCEPT ![c] = "request"]
    /\ netCount' = [netCount EXCEPT ![c] = @ + 1]
    /\ requested' = TRUE
    /\ minGap' = IF requested THEN Min(minGap, elapsed) ELSE minGap
    /\ UNCHANGED timer

\* Lines 92-97: the caller that finds the interval not elapsed suspends in
\* asyncio.sleep(min_interval - elapsed); the last request time is written
\* only after the sleep.
rate_limit(c) ==
    IF elapsed < min_interval
    THEN /\ fpc' = [fpc EXCEPT ![c] = "sleep"]
         /\ timer' = [timer EXCEPT ![c] = min_interval - elapsed]
         /\ UNCHANGED <<elapsed, netCount, requested, minGap>>
    ELSE IssueRequest(c)

\* Mutant of locked: the semaphore never refuses a caller.
locked_never == FALSE

\* asyncio.Semaphore.locked(): no permit is free.
locked == sem = 0

\* async with self._semaphore (line 123): with a free permit the caller goes
\* on to _rate_limit without suspending, otherwise it waits for a release.
EnterGuarded(c) ==
    IF locked
    THEN /\ fpc' = [fpc EXCEPT ![c] = "acquire"]
         /\ UNCHANGED <<sem, elapsed, timer, netCount, requested, minGap>>
    ELSE /\ sem' = sem - 1
         /\ rate_limit(c)

\* ------------------------------------------------------------------------
\* The cache
\* ------------------------------------------------------------------------
\* _get_cache_path: the md5 of the URL names the file; distinct URLs of the
\* model have distinct files.
get_cache_path(u) == u

\* Mutant of get_cached: a failing read is not caught.
get_cached_uncaught(u, readOk) ==
    IF cache[get_cache_path(u)].exists
    THEN IF readOk THEN Doc(ReadText(cache[get_cache_path(u)].text)) ELSE Raised("OSError")
    ELSE NoDoc

\* _get_cached: the document read from the file, None when there is no file
\* or when reading raises (the except clause logs and falls through).
get_cached(u, readOk) ==
    IF cache[get_cache_path(u)].exists
    THEN IF readOk THEN Doc(ReadText(cache[get_cache_path(u)].text)) ELSE NoDoc
    ELSE NoDoc

\* _cache_document: write_text of the body; a failure (mkdir or write) is
\* logged and swallowed, leaving the file as it was or cut short.
cache_document(u, html, w) ==
    CASE w = "ok" -> [cache EXCEPT ![get_cache_path(u)] = File(WriteText(html))]
      [] w = "fail_untouched" -> cache
      [] w = "fail_truncated" -> [cache EXCEPT ![get_cache_path(u)] = File(<<>>)]

\* The outcomes the file system can have.
ReadOutcomes == IF cache_works THEN {TRUE} ELSE BOOLEAN
WriteOutcomes == IF cache_works THEN {"ok"} ELSE {"ok", "fail_untouched", "fail_truncated"}

\* ------------------------------------------------------------------------
\* BaseScraper.fetch: one attempt, from its start to the first suspension
\* ------------------------------------------------------------------------
\* Line 116: the cache is consulted only with use_cache.
CacheLookup(u, readOk) == IF use_cache THEN get_cached(u, readOk) ELSE NoDoc

\* Mutant of IsCacheHit: the cached document is never returned.
IsCacheHit_never(cached) == FALSE

\* Line 118, "if cached:" (a RawDocument is always truthy).
IsCacheHit(cached) == cached.kind = "doc"

\* What the lookup of the attempt did to the cache directory.
LookupOp(c, u, readOk) ==
    [by |-> c, write |-> "none", raised |-> "none",
     read |-> IF ~use_cache THEN "none"
              ELSE IF ~cache[get_cache_path(u)].exists THEN "miss"
              ELSE IF readOk THEN "hit" ELSE "fail"]

Attempt(c, u, readOk) ==
    LET cached == CacheLookup(u, readOk) IN
    /\ cacheOp' = LookupOp(c, u, readOk)
    /\ IF IsCacheHit(cached)
       THEN /\ fpc' = [fpc EXCEPT ![c] = "done"]
            /\ result' = [result EXCEPT ![c] = cached]
            /\ UNCHANGED <<sem, elapsed, timer, netCount, requested, minGap>>
       ELSE IF cached # NoDoc
       THEN \* an exception of the lookup leaves fetch; it is not a retried type
            /\ fpc' = [fpc EXCEPT ![c] = "failed"]
            /\ result' = [result EXCEPT ![c] = cached]
            /\ UNCHANGED <<sem, elapsed, timer, netCount, requested, minGap>>
       ELSE /\ EnterGuarded(c)
            /\ UNCHANGED result
    /\ UNCHANGED <<cache, stored, fenv, nonfetch>>

\* A caller calls fetch(u): tenacity runs the first attempt at once.
FetchCall(c, u) ==
    /\ fpc[c] = "idle"
    /\ furl' = [furl EXCEPT ![c] = u]
    /\ attempt_number' = [attempt_number EXCEPT ![c] = 1]
    /\ \E readOk \in ReadOutcomes : Attempt(c, u, readOk)

\* A waiter of the semaphore is woken by a release and takes the permit.
AcquireWake(c) ==
    /\ fpc[c] = "acquire"
    /\ ~locked
    /\ sem' = sem - 1
    /\ rate_limit(c)
    /\ cacheOp' = NoCacheOp
    /\ UNCHANGED <<fenv, cache, furl, attempt_number, result, stored, nonfetch>>

\* asyncio.sleep of _rate_limit returns: line 99, then the request.
SleepWake(c) ==
    /\ fpc[c] = "sleep"
    /\ timer[c] = 0
    /\ IssueRequest(c)
    /\ cacheOp' = NoCacheOp
    /\ UNCHANGED <<fenv, sem, cache, furl, attempt_number, result, stored, nonfetch>>

\* ------------------------------------------------------------------------
\* BaseScraper.fetch: the response, and tenacity's decision after a failure
\* ------------------------------------------------------------------------
\* Mutant of IsRetried: every exception is retried.
IsRetried_any(e) == TRUE

\* retry_if_exception_type((httpx.HTTPStatusError, httpx.TimeoutException))
IsRetried(e) == e \in {HTTPStatusError, TimeoutException}

\* stop_after_attempt(3): the decorator's literal decides, not max_retries.
StopRetrying(n) == n >= stop_after_attempt

RECURSIVE Pow2(_)
Pow2(n) == IF n <= 0 THEN 1 ELSE 2 * Pow2(n - 1)

\* wait_exponential(multiplier=1, min=1, max=30) after attempt n.
RetryWait(n) == Max(wait_min, Min(wait_multiplier * Pow2(n - 1), wait_max))

\* Mutant of ShouldCache: the response is cached before raise_for_status.
ShouldCache_any_status(outcome) == use_cache

\* Lines 128-139: the document is cached once raise_for_status has passed,
\* and only with use_cache.
ShouldCache(outcome) == outcome = "ok" /\ use_cache

\* Mutant of Respond: the permit is given back only after a successful
\* response.
Respond_permit_kept_on_error(c, outcome, w) ==
    /\ fpc[c] = "request"
    /\ sem' = IF outcome = "ok" THEN sem + 1 ELSE sem
    /\ IF ShouldCache(outcome)
       THEN /\ cache' = cache_document(furl[c], server[furl[c]], w)
            /\ cacheOp' = [by |-> c, read |-> "none",
                           write |-> IF w = "ok" THEN "ok" ELSE "fail",
                           raised |-> IF outcome = "ok" THEN "none" ELSE outcome]
            /\ stored' = [stored EXCEPT ![furl[c]] =
                    IF w = "fail_untouched" THEN @ ELSE w = "ok"]
       ELSE /\ cacheOp' = IF outcome = "ok" THEN NoCacheOp
                           ELSE [NoCacheOp EXCEPT !.by = c, !.raised = outcome]
            /\ UNCHANGED <<cache, stored>>
    /\ IF outcome = "ok"
       THEN /\ fpc' = [fpc EXCEPT ![c] = "done"]
            /\ result' = [result EXCEPT ![c] = Doc(server[furl[c]])]
            /\ UNCHANGED timer
       ELSE IF IsRetried(outcome) /\ ~StopRetrying(attempt_number[c])
       THEN /\ fpc' = [fpc EXCEPT ![c] = "backoff"]
            /\ timer' = [timer EXCEPT ![c] = RetryWait(attempt_number[c])]
            /\ UNCHANGED result
       ELSE /\ fpc' = [fpc EXCEPT ![c] = "failed"]
            /\ result' = [result EXCEPT ![c] =
                    Raised(IF IsRetried(outcome) THEN RetryError ELSE outcome)]
            /\ UNCHANGED timer
    /\ UNCHANGED <<fenv, elapsed, furl, attempt_number, netCount, requested, minGap,
                   nonfetch>>

\* The request of caller c ends with outcome "ok" or with an exception; w is
\* the outcome of the cache write, if one is made.  Leaving the async with
\* block releases the permit on every path.
Respond(c, outcome, w) ==
    /\ fpc[c] = "request"
    /\ sem' = sem + 1
    /\ IF ShouldCache(outcome)
       THEN /\ cache' = cache_document(furl[c], server[furl[c]], w)
            /\ cacheOp' = [by |-> c, read |-> "none",
                           write |-> IF w = "ok" THEN "ok" ELSE "fail",
                           raised |-> IF outcome = "ok" THEN "none" ELSE outcome]
            /\ stored' = [stored EXCEPT ![furl[c]] =
                    IF w = "fail_untouched" THEN @ ELSE w = "ok"]
       ELSE /\ cacheOp' = IF outcome = "ok" THEN NoCacheOp
                           ELSE [NoCacheOp EXCEPT !.by = c, !.raised = outcome]
            /\ UNCHANGED <<cache, stored>>
    /\ IF outcome = "ok"
       THEN /\ fpc' = [fpc EXCEPT ![c] = "done"]
            /\ result' = [result EXCEPT ![c] = Doc(server[furl[c]])]
            /\ UNCHANGED timer
       ELSE IF IsRetried(outcome) /\ ~StopRetrying(attempt_number[c])
       THEN /\ fpc' = [fpc EXCEPT ![c] = "backoff"]
            /\ timer' = [timer EXCEPT ![c] = RetryWait(attempt_number[c])]
            /\ UNCHANGED result
       ELSE /\ fpc' = [fpc EXCEPT ![c] = "failed"]
            /\ result' = [result EXCEPT ![c] =
                    Raised(IF IsRetried(outcome) THEN RetryError ELSE outcome)]
            /\ UNCHANGED timer
    /\ UNCHANGED <<fenv, elapsed, furl, attempt_number, netCount, requested, minGap,
                   nonfetch>>

RespondOk(c) == \E w \in WriteOutcomes : Respond(c, "ok", w)
RespondStatusError(c) == \E w \in {"ok"} : Respond(c, HTTPStatusError, w)
RespondTimeout(c) == \E w \in {"ok"} : Respond(c, TimeoutException, w)
RespondOtherError(c) == \E w \in {"ok"} : Respond(c, OtherError, w)

\* tenacity's sleep between attempts returns: the next attempt starts.
RetryWake(c) ==
    /\ fpc[c] = "backoff"
    /\ timer[c] = 0
    /\ attempt_number' = [attempt_number EXCEPT ![c] = @ + 1]
    /\ UNCHANGED furl
    /\ \E readOk \in ReadOutcomes : Attempt(c, furl[c], readOk)

\* The caller has its document or its exception and may call fetch again.
FetchReturn(c) ==
    /\ fpc[c] \in {"done", "failed"}
    /\ fpc' = [fpc EXCEPT ![c] = "idle"]
    /\ furl' = [furl EXCEPT ![c] = None]
    /\ attempt_number' = [attempt_number EXCEPT ![c] = 0]
    /\ result' = [result EXCEPT ![c] = NoDoc]
    /\ netCount' = [netCount EXCEPT ![c] = 0]
    /\ cacheOp' = NoCacheOp
    /\ UNCHANGED <<fenv, sem, elapsed, cache, timer, stored, requested, minGap,
                   nonfetch>>

\* One tick of the loop clock passes: the time since the last request grows
\* and every pending sleep comes one tick closer to its end.  A sleep that
\* has run out may still be resumed later.
Tick ==
    /\ elapsed' = Min(elapsed + 1, min_interval)
    /\ timer' = [c \in Callers |-> Max(timer[c] - 1, 0)]
    /\ \/ elapsed' # elapsed
       \/ timer' # timer
    /\ cacheOp' = NoCacheOp
    /\ UNCHANGED <<fenv, sem, cache, fpc, furl, attempt_number, result,
                   netCount, stored, requested, minGap, nonfetch>>

FetchNext ==
    \/ \E c \in Callers, u \in URLs : FetchCall(c, u)
    \/ \E c \in Callers : AcquireWake(c)
    \/ \E c \in Callers : SleepWake(c)
    \/ \E c \in Callers : RespondOk(c)
    \/ \E c \in Callers : RespondStatusError(c)
    \/ \E c \in Callers : RespondTimeout(c)
    \/ \E c \in Callers : RespondOtherError(c)
    \/ \E c \in Callers : RetryWake(c)
    \/ \E c \in Callers : FetchReturn(c)
    \/ Tick

\* ========================================================================
\* Properties of the fetch layer (checked under SpecFetch)
\* ========================================================================
\* The fetch calls that are between semaphore acquisition and release.
InGuarded == {c \in Callers : fpc[c] \in {"sleep", "request"}}

\* C4: any two network requests of one scraper instance are at least
\* min_interval apart, whether the callers are sequential or hold permits
\* concurrently.
C4_RequestsSpaced == minGap >= min_interval

\* C5: at most max_concurrent_requests fetch calls are between semaphore
\* acquisition and release, and a fetch takes its rate-limit step only in a
\* step in which it takes a permit.
C5_SemaphoreBound ==
    /\ [](Cardinality(InGuarded) <= max_concurrent_requests)
    /\ [][\A c \in Callers :
            (fpc[c] \in {"idle", "acquire", "backoff"} /\ fpc'[c] \in {"sleep", "request"})
                => (sem > 0 /\ sem' = sem - 1)]_fvars

\* C5 witness: every permit is taken and another fetch waits for one.
C5_Witness ==
    /\ Cardinality(InGuarded) = max_concurrent_requests
    /\ \E c \in Callers : fpc[c] = "acquire"

\* C6: a fetch attempt that finds a readable cache entry with caching
\* enabled returns the body read from it, issues no network request, takes
\* no permit and leaves the last request time alone.
C6_CacheHit ==
    [][cacheOp'.read = "hit" =>
            LET c == cacheOp'.by IN
            /\ use_cache
            /\ fpc'[c] = "done"
            /\ result'[c] = Doc(ReadText(cache[get_cache_path(furl'[c])].text))
            /\ netCount'[c] = netCount[c]
            /\ UNCHANGED <<sem, elapsed, requested, minGap, cache>>]_fvars

\* C6 witness: a retry attempt was answered from the cache.
C6_Witness ==
    /\ cacheOp.read = "hit"
    /\ fpc[cacheOp.by] = "done"
    /\ attempt_number[cacheOp.by] = 2

\* C7: the cache changes only in the step in which a fetch of that URL gets
\* a successful response, and only that URL's entry; with use_cache false
\* the cache is neither read nor written.
C7_CacheWrites ==
    /\ [][cache' # cache =>
            /\ use_cache
            /\ \E c \in Callers :
                /\ fpc[c] = "request"
                /\ fpc'[c] = "done"
                /\ result'[c] = Doc(server[furl[c]])
                /\ \A u \in URLs : u # furl[c] => cache'[u] = cache[u]]_fvars
    /\ [](~use_cache =>
            /\ cacheOp.read = "none"
            /\ cacheOp.write = "none"
            /\ \A u \in URLs : cache[u] = NoFile)

\* C7 witness: a fetch wrote its document to the cache while the other
\* URL's entry exists too.
C7_Witness ==
    /\ cacheOp.write = "ok"
    /\ fpc[cacheOp.by] = "done"
    /\ \A u \in URLs : cache[u].exists

\* C8: once a fetch of a URL has succeeded over the network and written the
\* cache (caching enabled, cache working), every later fetch of the URL
\* returns the same body and issues no network request.
C8_SameBodyFromCache ==
    [][\A c \in Callers, u \in URLs :
            (/\ fpc[c] = "idle"
             /\ fpc'[c] # "idle"
             /\ furl'[c] = u
             /\ use_cache /\ cache_works /\ stored[u])
                => (/\ fpc'[c] = "done"
                    /\ result'[c] = Doc(server[u])
                    /\ netCount'[c] = 0)]_fvars

C10_AttemptsWithinMaxRetries ==
    \A c \in Callers :
        /\ netCount[c] <= max_retries
        /\ (fpc[c] = "failed" /\ result[c] = Raised(RetryError))
                => netCount[c] = max_retries

\* C11: an attempt that ends in an exception other than an HTTP status error
\* or a timeout is not retried: fetch raises that exception at once, after
\* exactly one network request when it was the first attempt, and no later
\* request of the call follows.
C11_NonTransientNotRetried ==
    /\ [][\A c \in Callers :
            (cacheOp'.by = c /\ cacheOp'.raised = OtherError)
                => (/\ fpc'[c] = "failed"
                    /\ result'[c] = Raised(OtherError)
                    /\ netCount'[c] = netCount[c]
                    /\ attempt_number[c] = 1 => netCount'[c] = 1)]_fvars
    /\ [][\A c \in Callers :
            (fpc[c] = "failed" /\ fpc'[c] # "idle")
                => (fpc'[c] = "failed" /\ netCount'[c] = netCount[c])]_fvars

\* C11 witness: the first attempt of a fetch ended in such an exception and
\* the fetch has failed with it, while the other caller is being retried.
C11_Witness ==
    \E c, d \in Callers :
        /\ cacheOp.by = c
        /\ cacheOp.raised = OtherError
        /\ result[c] = Raised(OtherError)
        /\ netCount[c] = 1
        /\ fpc[d] = "backoff"

\* C38: a fetch holds a permit of the semaphore only inside the guarded
\* section: the free permits and the fetches inside it add up to
\* max_concurrent_requests in every state, so a fetch that waits in retry
\* backoff or has failed holds none, and when no fetch is inside the section
\* every permit is free for the fetches to come.
C38_PermitsReleased ==
    /\ sem + Cardinality(InGuarded) = max_concurrent_requests
    /\ (\A c \in Callers : fpc[c] \notin {"sleep", "request"})
            => sem = max_concurrent_requests

\* C38 witness: with one permit, a fetch has failed after its retries, and
\* the other fetch has taken the permit and made its request.
C38_Witness ==
    /\ max_concurrent_requests = 1
    /\ \E c, d \in Callers :
          /\ fpc[c] = "failed"
          /\ result[c] = Raised(RetryError)
          /\ fpc[d] = "request"
          /\ netCount[d] = 1
    /\ sem = 0

\* ========================================================================
\* LLMFilter (processors/llm_filter.py)
\* ========================================================================
\* Class attribute max_concurrent_requests of LLMFilter.
llm_max_concurrent_requests == 5
\* min_interval = 1.0 / requests_per_second for requests_per_second = 5.0,
\* in ticks of a tenth of a second.
llm_min_interval == 2
\* batch_size of filter_chunks.
filter_batch_size == 10

ChunkIds == 1..chunks
\* A text is a sequence of words and whitespace ("SP").  Content(k) is the
\* content of chunk k, Rewritten(k) the external filter's rewrite of it.
Content(k) == <<"content", ToString(k)>>
Rewritten(k) == <<"rewritten", ToString(k)>>
NO_CONTENT == <<"NO_CONTENT">>
Blank == <<"SP">>
\* The texts the external filter may answer the request of chunk k with: the
\* same text, a rewritten one, the sentinel, nothing, whitespace only.
ResponseTexts(k) ==
    IF chunks > MaxChunks THEN {Content(k)}
    ELSE {Content(k), Rewritten(k), NO_CONTENT, <<>>, Blank}
\* The calls that may end with an exception: every call of a list of up to
\* MaxChunks chunks, the last call of each full batch of a longer list.
MayFail(k) == chunks <= MaxChunks \/ k % filter_batch_size = 0
NoResult == [filtered_content |-> <<>>, was_modified |-> FALSE,
             removed_entirely |-> FALSE, returned |-> FALSE]

RECURSIVE lstrip(_)
lstrip(t) == IF t # <<>> /\ Head(t) = "SP" THEN lstrip(Tail(t)) ELSE t

RECURSIVE rstrip(_)
rstrip(t) == IF t # <<>> /\ t[Len(t)] = "SP" THEN rstrip(SubSeq(t, 1, Len(t) - 1)) ELSE t

\* str.strip(): leading and trailing whitespace is removed.
strip(t) == rstrip(lstrip(t))

\* str.lower() of a word; the other words of the model are lower case.
lower(w) == IF w = "NO_CONTENT" THEN "no_content" ELSE w

RECURSIVE collapse(_)
\* re.sub(r"\s+", " ", text.lower()): every run of whitespace becomes one
\* space.
collapse(t) ==
    IF t = <<>> THEN <<>>
    ELSE IF Head(t) = "SP" /\ Len(t) >= 2 /\ t[2] = "SP" THEN collapse(Tail(t))
    ELSE <<lower(Head(t))>> \o collapse(Tail(t))

\* __init__, and the state before filter_chunks is called.
FilterCalled(n, skip) ==
    /\ chunks = n
    /\ skip_filter = skip
    /\ submitted = [k \in ChunkIds |-> 0]
    /\ lpc = "idle"
    /\ batch_start = 0
    /\ results = <<>>
    /\ lsem = llm_max_concurrent_requests
    \* _last_request_time = 0.0, and the loop clock (a monotonic clock) reads
    \* more than min_interval
    /\ lelapsed = llm_min_interval
    /\ tpc = [k \in ChunkIds |-> "none"]
    /\ ttimer = [k \in ChunkIds |-> 0]
    /\ tresult = [k \in ChunkIds |-> NoResult]
    /\ lrequested = FALSE
    /\ lminGap = llm_min_interval
    /\ failed = {}
    /\ overtaken = FALSE

FilterConstructed(n) == FilterCalled(n, FALSE)

FilterInit == \E n \in 0..MaxChunks, skip \in BOOLEAN : FilterCalled(n, skip)

\* A list of more than one batch.
LongListInit == \E skip \in BOOLEAN : FilterCalled(LongList, skip)

\* Mutant of BatchOf: the rest of the list is one batch.
BatchOf_rest_of_list(i) == {k \in ChunkIds : i < k /\ k <= chunks}

\* The chunks of the batch that starts at index i (0-based) of the list:
\* chunks[i : i + batch_size].
BatchOf(i) == {k \in ChunkIds : i < k /\ k <= i + filter_batch_size /\ k <= chunks}

\* Line 113, self._last_request_time = now, then client.post (line 152).
LIssueRequest(k) ==
    /\ lelapsed' = 0
    /\ tpc' = [tpc EXCEPT ![k] = "request"]
    /\ lrequested' = TRUE
    /\ submitted' = [submitted EXCEPT ![k] = @ + 1]
    /\ lminGap' = IF lrequested THEN Min(lminGap, lelapsed) ELSE lminGap
    /\ UNCHANGED ttimer

\* LLMFilter._rate_limit, lines 106-113.
llm_rate_limit(k) ==
    IF lelapsed < llm_min_interval
    THEN /\ tpc' = [tpc EXCEPT ![k] = "sleep"]
         /\ ttimer' = [ttimer EXCEPT ![k] = llm_min_interval - lelapsed]
         /\ UNCHANGED <<lelapsed, lrequested, submitted, lminGap>>
    ELSE LIssueRequest(k)

\* filter_chunks is called with skip_filter false: the first batch's tasks
\* are created; an empty list returns at once.
FilterChunksCall ==
    /\ lpc = "idle"
    /\ ~skip_filter
    /\ batch_start' = 0
    /\ IF chunks = 0
       THEN /\ lpc' = "returned"
            /\ UNCHANGED tpc
       ELSE /\ lpc' = "gather"
            /\ tpc' = [k \in ChunkIds |-> IF k \in BatchOf(0) THEN "new" ELSE tpc[k]]
    /\ UNCHANGED <<chunks, skip_filter, results, lsem, lelapsed, ttimer, tresult,
                   lrequested, submitted, lminGap, failed, overtaken, nonfilter>>

\* Lines 246-248: with skip_filter every chunk is returned with its
\* content, and nothing else happens.
FilterChunksSkip ==
    /\ lpc = "idle"
    /\ skip_filter
    /\ results' = [k \in 1..chunks |-> <<k, Content(k)>>]
    /\ lpc' = "returned"
    /\ UNCHANGED <<chunks, skip_filter, batch_start, lsem, lelapsed, tpc, ttimer,
                   tresult, lrequested, submitted, lminGap, failed, overtaken,
                   nonfilter>>

\* A task created by gather runs its first step; the loop runs the tasks of
\* a batch in the order they were created.  async with self._semaphore
\* (line 138), then _rate_limit.
TaskStart(k) ==
    /\ lpc = "gather"
    /\ tpc[k] = "new"
    /\ \A j \in ChunkIds : j < k => tpc[j] # "new"
    /\ IF lsem = 0 \/ \E j \in ChunkIds : tpc[j] = "acquire"
       THEN /\ tpc' = [tpc EXCEPT ![k] = "acquire"]
            /\ UNCHANGED <<lsem, lelapsed, ttimer, lrequested, submitted, lminGap>>
       ELSE /\ lsem' = lsem - 1
            /\ llm_rate_limit(k)
    /\ UNCHANGED <<chunks, skip_filter, lpc, batch_start, results, tresult, failed,
                   overtaken, nonfilter>>

\* A task waiting for the semaphore is woken by a release; the semaphore
\* wakes its waiters in the order they came.
TaskAcquire(k) ==
    /\ tpc[k] = "acquire"
    /\ \A j \in ChunkIds : j < k => tpc[j] # "acquire"
    /\ lsem > 0
    /\ lsem' = lsem - 1
    /\ llm_rate_limit(k)
    /\ UNCHANGED <<chunks, skip_filter, lpc, batch_start, results, tresult, failed,
                   overtaken, nonfilter>>

\* asyncio.sleep of _rate_limit returns.
TaskSleepWake(k) ==
    /\ tpc[k] = "sleep"
    /\ ttimer[k] = 0
    /\ LIssueRequest(k)
    /\ UNCHANGED <<chunks, skip_filter, lpc, batch_start, results, lsem, tresult,
                   failed, overtaken, nonfilter>>

\* _normalize_text: strip, lower case, runs of whitespace collapsed.
normalize_text(t) == collapse(strip(t))

\* Mutant of FilterResultOf: only the sentinel removes a chunk, an empty
\* response is kept.
FilterResultOf_sentinel_only(k, text) ==
    LET filtered_content == strip(text)
        removed_entirely == filtered_content = NO_CONTENT
    IN [filtered_content |-> IF removed_entirely THEN <<>> ELSE filtered_content,
        was_modified |-> removed_entirely
                         \/ normalize_text(filtered_content) # normalize_text(Content(k)),
        removed_entirely |-> removed_entirely,
        returned |-> TRUE]

\* Lines 169-201: the FilterResult of chunk k for a response text.
FilterResultOf(k, text) ==
    LET filtered_content == strip(text)
        removed_entirely == filtered_content = NO_CONTENT \/ filtered_content = <<>>
        was_modified == removed_entirely
                        \/ normalize_text(filtered_content) # normalize_text(Content(k))
    IN [filtered_content |-> IF removed_entirely THEN <<>> ELSE filtered_content,
        was_modified |-> was_modified,
        removed_entirely |-> removed_entirely,
        returned |-> TRUE]

\* Mutant of FailOpenResult: a failed call drops the chunk (fail closed).
FailOpenResult_dropped(k) ==
    [filtered_content |-> <<>>, was_modified |-> TRUE,
     removed_entirely |-> TRUE, returned |-> TRUE]

\* Lines 203-225: on any exception the original content passes (fail open).
FailOpenResult(k) ==
    [filtered_content |-> Content(k), was_modified |-> FALSE,
     removed_entirely |-> FALSE, returned |-> TRUE]

\* Mutant of TaskRespond: the permit of the call is not given back.
TaskRespond_permit_kept(k, r, exc) ==
    /\ tpc[k] = "request"
    /\ tpc' = [tpc EXCEPT ![k] = "done"]
    /\ tresult' = [tresult EXCEPT ![k] = r]
    /\ lsem' = lsem
    /\ failed' = IF exc THEN failed \cup {k} ELSE failed
    /\ UNCHANGED <<chunks, skip_filter, lpc, batch_start, results, lelapsed, ttimer,
                   lrequested, submitted, lminGap, overtaken, nonfilter>>

\* Mutant of TaskRespond: a call that failed is made once more.
TaskRespond_retried(k, r, exc) ==
    /\ tpc[k] = "request"
    /\ IF exc /\ submitted[k] = 1
       THEN /\ submitted' = [submitted EXCEPT ![k] = 2]
            /\ UNCHANGED <<tpc, tresult, lsem, failed, overtaken>>
       ELSE /\ tpc' = [tpc EXCEPT ![k] = "done"]
            /\ tresult' = [tresult EXCEPT ![k] = r]
            /\ lsem' = lsem + 1
            /\ failed' = IF exc THEN failed \cup {k} ELSE failed
            /\ UNCHANGED <<submitted, overtaken>>
    /\ UNCHANGED <<chunks, skip_filter, lpc, batch_start, results, lelapsed, ttimer,
                   lrequested, lminGap, nonfilter>>

\* The external call of task k ends, with a response or (exc) an exception,
\* and filter_chunk returns r.
TaskRespond(k, r, exc) ==
    /\ tpc[k] = "request"
    /\ tpc' = [tpc EXCEPT ![k] = "done"]
    /\ tresult' = [tresult EXCEPT ![k] = r]
    /\ lsem' = lsem + 1
    /\ failed' = IF exc THEN failed \cup {k} ELSE failed
    /\ overtaken' = (overtaken \/ \E j \in BatchOf(batch_start) : j < k /\ tpc[j] # "done")
    /\ UNCHANGED <<chunks, skip_filter, lpc, batch_start, results, lelapsed, ttimer,
                   lrequested, submitted, lminGap, nonfilter>>

TaskRespondText(k) ==
    \E text \in ResponseTexts(k) : TaskRespond(k, FilterResultOf(k, text), FALSE)
TaskRespondError(k) == MayFail(k) /\ TaskRespond(k, FailOpenResult(k), TRUE)

RECURSIVE Retained_reversed(_, _)
\* Mutant of Retained: the results are paired with the batch in reverse.
Retained_reversed(k, last) ==
    IF k > last THEN <<>>
    ELSE LET r == tresult[last + batch_start + 1 - k]
         IN (IF r.removed_entirely THEN <<>> ELSE <<<<k, r.filtered_content>>>>)
                \o Retained_reversed(k + 1, last)

RECURSIVE Retained(_, _)
\* Lines 262-271: the pairs of the batch's chunks from k on that are kept.
Retained(k, last) ==
    IF k > last THEN <<>>
    ELSE (IF tresult[k].removed_entirely THEN <<>>
          ELSE <<<<k, tresult[k].filtered_content>>>>) \o Retained(k + 1, last)

\* gather returns once every task of the batch has: the results are zipped
\* with the batch, and the next batch's tasks are created or the list is
\* returned.
GatherReturn ==
    /\ lpc = "gather"
    /\ \A k \in BatchOf(batch_start) : tpc[k] = "done"
    /\ results' = results \o Retained(batch_start + 1,
                                     Min(batch_start + filter_batch_size, chunks))
    /\ batch_start' = batch_start + filter_batch_size
    /\ IF batch_start' < chunks
       THEN /\ lpc' = "gather"
            /\ tpc' = [k \in ChunkIds |-> IF k \in BatchOf(batch_start') THEN "new" ELSE tpc[k]]
       ELSE /\ lpc' = "returned"
            /\ UNCHANGED tpc
    /\ UNCHANGED <<chunks, skip_filter, lsem, lelapsed, ttimer, tresult, lrequested,
                   submitted, lminGap, failed, overtaken, nonfilter>>

\* One tick of the loop clock.  The tasks gather has created run their first
\* step in the same pass of the loop, before the loop waits for anything.
LTick ==
    /\ \A k \in ChunkIds : tpc[k] # "new"
    /\ lelapsed' = Min(lelapsed + 1, llm_min_interval)
    /\ ttimer' = [k \in ChunkIds |-> Max(ttimer[k] - 1, 0)]
    /\ \/ lelapsed' # lelapsed
       \/ ttimer' # ttimer
    /\ UNCHANGED <<chunks, skip_filter, lpc, batch_start, results, lsem, tpc, tresult,
                   lrequested, submitted, lminGap, failed, overtaken, nonfilter>>

FilterNext ==
    \/ FilterChunksCall
    \/ FilterChunksSkip
    \/ \E k \in ChunkIds : TaskStart(k)
    \/ \E k \in ChunkIds : TaskAcquire(k)
    \/ \E k \in ChunkIds : TaskSleepWake(k)
    \/ \E k \in ChunkIds : TaskRespondText(k)
    \/ \E k \in ChunkIds : TaskRespondError(k)
    \/ GatherReturn
    \/ LTick

\* ========================================================================
\* Properties of the filter (checked under SpecFilter)
\* ========================================================================
\* C1: any two external filter requests of one LLMFilter are at least
\* min_interval apart, also when they come from filter_chunk calls running
\* concurrently in one batch.
C1_FilterRequestsSpaced == lminGap >= llm_min_interval

\* C12: a chunk whose external call failed is returned by filter_chunks with
\* its original content, unmodified; when every call fails the result is
\* exactly the input chunks, each with its original content.
C12_FailOpen ==
    lpc = "returned" =>
        /\ \A k \in failed :
            /\ \E i \in 1..Len(results) : results[i] = <<k, Content(k)>>
            /\ ~tresult[k].was_modified
        /\ failed = 1..chunks => results = [k \in 1..chunks |-> <<k, Content(k)>>]

\* C12 witness: filter_chunks has returned a list of several chunks every
\* one of whose calls failed.
C12_Witness ==
    /\ lpc = "returned"
    /\ chunks >= 3
    /\ failed = 1..chunks

\* C13: the list filter_chunks returns is a subsequence of the input list in
\* input order, and each content in it comes from the request of its own
\* chunk, whatever order the calls of a batch end in (with skip_filter, where
\* no request is made, it is the content of its own chunk).
C13_OrderPreserved ==
    /\ \A i \in 1..Len(results) :
        LET k == results[i][1] IN
        /\ k \in 1..chunks
        /\ results[i][2] = IF skip_filter THEN Content(k) ELSE tresult[k].filtered_content
        /\ results[i][2] \in {strip(t) : t \in ResponseTexts(k)} \ {NO_CONTENT, <<>>}
        /\ k \in failed => results[i][2] = Content(k)
    /\ \A i, j \in 1..Len(results) : i < j => results[i][1] < results[j][1]

\* C13 witness: filter_chunks has returned several chunks, one removed in
\* between, after a call ended before a call created earlier.
C13_Witness ==
    /\ lpc = "returned"
    /\ overtaken
    /\ Len(results) >= 2
    /\ \E i \in 1..(Len(results) - 1) : results[i + 1][1] > results[i][1] + 1
    /\ \E i \in 1..Len(results) : results[i][2] = Rewritten(results[i][1])

\* The batch a chunk of the list belongs to, counted from 0.
BatchIndex(k) == (k - 1) \div filter_batch_size

\* C27: the chunks are handled in consecutive batches of at most 10: the
\* calls that exist are those of the first chunks of the list up to the end
\* of the current batch, the calls that have not returned are all of one
\* batch, and no request is issued for a chunk before every call of the
\* batches before its own has returned.
C27_BatchBarrier ==
    /\ lpc = "gather" =>
          {k \in ChunkIds : tpc[k] # "none"}
              = 1..Min(batch_start + filter_batch_size, chunks)
    /\ \A j, k \in ChunkIds :
          (tpc[j] \notin {"none", "done"} /\ tpc[k] \notin {"none", "done"})
              => BatchIndex(j) = BatchIndex(k)
    /\ \A j, k \in ChunkIds :
          (BatchIndex(j) < BatchIndex(k) /\ submitted[k] > 0) => tpc[j] = "done"

\* C27 witness: the request of the first chunk of the second batch is in
\* flight, after the ten calls of the first batch, one of which failed.
C27_Witness ==
    /\ chunks > filter_batch_size
    /\ tpc[filter_batch_size + 1] = "request"
    /\ \A k \in 1..filter_batch_size : tpc[k] = "done"
    /\ failed # {}
    /\ Len(results) = filter_batch_size

\* The chunks whose external request is in flight.
InFlight == {k \in ChunkIds : tpc[k] = "request"}

\* C28: at most min(max_concurrent_requests, 10) external requests are in
\* flight; no chunk is submitted more than once, and when filter_chunks has
\* returned every chunk has been submitted exactly once; with skip_filter
\* no request is made at all.
C28_InFlightBoundSubmittedOnce ==
    /\ Cardinality(InFlight) <= Min(llm_max_concurrent_requests, filter_batch_size)
    /\ \A k \in ChunkIds : submitted[k] <= 1
    /\ (lpc = "returned" /\ ~skip_filter) => \A k \in ChunkIds : submitted[k] = 1
    /\ skip_filter => (~lrequested /\ \A k \in ChunkIds : submitted[k] = 0)

\* C28 witness: as many requests as the semaphore allows are in flight
\* while other calls of the batch wait for it, after a call has returned.
C28_Witness ==
    /\ Cardinality(InFlight) = llm_max_concurrent_requests
    /\ \E k \in ChunkIds : tpc[k] = "acquire"
    /\ \E k \in ChunkIds : tpc[k] = "done" /\ submitted[k] = 1

\* C29: filter_chunks returns in the end: given that the loop runs what is
\* ready and that every external call returns or fails, every batch
\* completes, also a batch of 10 calls for 5 permits whose requests the
\* rate limiter delays.
C29_FilterChunksReturns == <>(lpc = "returned")

\* C29 witness: filter_chunks has returned the list of a run of two
\* batches in which calls waited for the semaphore and for the rate
\* limiter.
C29_Witness ==
    /\ lpc = "returned"
    /\ ~skip_filter
    /\ chunks > filter_batch_size
    /\ batch_start >= chunks
    /\ Len(results) = chunks
    /\ failed # {}
    /\ lsem = llm_max_concurrent_requests

\* ========================================================================
\* Pipeline (processors/pipeline.py)
\* ========================================================================
\* PipelineStats(): every counter 0.
NewStats ==
    [events_scraped |-> 0, chunks_created |-> 0, chunks_filtered |-> 0,
     chunks_retained |-> 0, snippets_embedded |-> 0, snippets_uploaded |-> 0,
     snippets_skipped |-> 0, errors |-> 0]

\* No _upload_batch call has returned or raised.
NoStorage == [returned |-> 0, raised |-> 0, inserted |-> 0, skipped |-> 0, exact |-> TRUE]

\* Pipeline.__init__ and the arguments of run, before run is called.
PipelineConstructed(d, b, f) ==
    /\ dry_run = d
    /\ batch_size = b
    /\ use_llm_filter = f
    /\ ppc = "pending"
    /\ events = 0
    /\ all_chunks = 0
    /\ filtered_chunks = <<>>
    /\ pidx = 0
    /\ batch = <<>>
    /\ stats = NewStats
    /\ uploads = <<>>
    /\ responses = <<>>
    /\ kept_content = <<>>
    /\ storage = NoStorage
    /\ embedded = <<>>

PipelineInit ==
    \E d \in BOOLEAN, b \in 1..MaxBatchSize, f \in BOOLEAN : PipelineConstructed(d, b, f)

\* One configuration, for the specifications in which no run is made.
PipelineDefaults == PipelineConstructed(FALSE, 1, TRUE)

pconfig == <<dry_run, batch_size, use_llm_filter>>

RECURSIVE Ascending(_)
\* The members of a set of chunk positions as a list in list order.
Ascending(S) ==
    IF S = {} THEN <<>>
    ELSE LET m == CHOOSE x \in S : \A y \in S : x <= y
         IN <<m>> \o Ascending(S \ {m})

\* run is called: stats = PipelineStats(), phase 1 begins (lines 104-109).
RunCall ==
    /\ ppc = "pending"
    /\ ppc' = "scraping"
    /\ stats' = NewStats
    /\ UNCHANGED <<pconfig, events, all_chunks, filtered_chunks, pidx, batch, uploads,
                   responses, kept_content, storage, embedded, nonpipeline>>

\* Mutant of ScrapeEvent: each event is chunked as it arrives.
ScrapeEvent_streaming ==
    /\ ppc = "scraping"
    /\ events < MaxEvents
    /\ events' = events + 1
    /\ all_chunks' = all_chunks + 1
    /\ stats' = [stats EXCEPT !.events_scraped = @ + 1, !.chunks_created = @ + 1]
    /\ UNCHANGED <<pconfig, ppc, filtered_chunks, pidx, batch, uploads, responses,
                   kept_content, storage, embedded, nonpipeline>>

\* Lines 110-112: the source yields one more event.
ScrapeEvent ==
    /\ ppc = "scraping"
    /\ events < MaxEvents
    /\ events' = events + 1
    /\ stats' = [stats EXCEPT !.events_scraped = @ + 1]
    /\ UNCHANGED <<pconfig, ppc, all_chunks, filtered_chunks, pidx, batch, uploads,
                   responses, kept_content, storage, embedded, nonpipeline>>

\* Lines 119-121: the source is exhausted; without events run returns.
ScrapeEnd ==
    /\ ppc = "scraping"
    /\ ppc' = IF events = 0 THEN "returned" ELSE "chunking"
    /\ UNCHANGED <<pconfig, events, all_chunks, filtered_chunks, pidx, batch, stats,
                   uploads, responses, kept_content, storage, embedded, nonpipeline>>

\* Lines 125-129: every event is chunked; chunk_event gives at least one
\* chunk per event.
ChunkEvents ==
    /\ ppc = "chunking"
    /\ \E n \in events..(events * MaxChunksPerEvent) :
        /\ all_chunks' = n
        /\ stats' = [stats EXCEPT !.chunks_created = n]
    /\ ppc' = "filtering"
    /\ UNCHANGED <<pconfig, events, filtered_chunks, pidx, batch, uploads, responses,
                   kept_content, storage, embedded, nonpipeline>>

\* Mutant of AfterFilter: no early return, the loop and the flush find
\* nothing to do.
AfterFilter_no_short_circuit(kept) == IF kept = <<>> THEN "flush" ELSE "embedding"

\* Lines 151-153 and 160: without retained chunks run returns, otherwise
\* phase 4 starts with an empty batch.
AfterFilter(kept) == IF kept = <<>> THEN "returned" ELSE "embedding"

\* Lines 144 and 148: [(chunk, chunk.content) for chunk in all_chunks], the
\* contents of the pairs.
PassThrough(n) == [k \in 1..n |-> Content(k)]

\* Lines 146-149: filtering is disabled, every chunk passes.
FilterDisabled ==
    /\ ppc = "filtering"
    /\ ~use_llm_filter
    /\ filtered_chunks' = Ascending(1..all_chunks)
    /\ kept_content' = PassThrough(all_chunks)
    /\ stats' = [stats EXCEPT !.chunks_retained = all_chunks]
    /\ ppc' = AfterFilter(filtered_chunks')
    /\ UNCHANGED <<pconfig, events, all_chunks, pidx, batch, uploads, responses,
                   storage, embedded, nonpipeline>>

\* Mutant of FilterNoKey: the missing key is counted as an error of the run.
FilterNoKey_counted_as_error ==
    /\ ppc = "filtering"
    /\ use_llm_filter
    /\ filtered_chunks' = Ascending(1..all_chunks)
    /\ kept_content' = PassThrough(all_chunks)
    /\ stats' = [stats EXCEPT !.chunks_retained = all_chunks, !.errors = @ + 1]
    /\ ppc' = AfterFilter(filtered_chunks')
    /\ UNCHANGED <<pconfig, events, all_chunks, pidx, batch, uploads, responses,
                   storage, embedded, nonpipeline>>

\* Lines 141-145: LLMFilter() raises ValueError (no API key), every chunk
\* passes.
FilterNoKey ==
    /\ ppc = "filtering"
    /\ use_llm_filter
    /\ filtered_chunks' = Ascending(1..all_chunks)
    /\ kept_content' = PassThrough(all_chunks)
    /\ stats' = [stats EXCEPT !.chunks_retained = all_chunks]
    /\ ppc' = AfterFilter(filtered_chunks')
    /\ UNCHANGED <<pconfig, events, all_chunks, pidx, batch, uploads, responses,
                   storage, embedded, nonpipeline>>

\* How the external call of chunk k may end: with a response text, or with
\* an exception.
FilterOutcomes(k) ==
    {[raised |-> FALSE, text |-> t] : t \in ResponseTexts(k)}
        \cup {[raised |-> TRUE, text |-> <<>>]}

\* filter_chunk of chunk k for outcome o of its external call.
filter_chunk(k, o) == IF o.raised THEN FailOpenResult(k) ELSE FilterResultOf(k, o.text)

\* filter_chunks (llm_filter.py, lines 255-271) for the outcomes resp of the
\* calls: the chunks whose result is not removed_entirely, in list order.
filter_chunks(n, resp) ==
    Ascending({k \in 1..n : ~filter_chunk(k, resp[k]).removed_entirely})

\* Lines 137-140: filter_chunks returns the chunks it did not remove.
FilterRun ==
    /\ ppc = "filtering"
    /\ use_llm_filter
    /\ \E resp \in [1..all_chunks -> UNION {FilterOutcomes(k) : k \in 1..all_chunks}] :
        /\ \A k \in 1..all_chunks : resp[k] \in FilterOutcomes(k)
        /\ responses' = resp
        /\ filtered_chunks' = filter_chunks(all_chunks, resp)
        /\ kept_content' = [i \in 1..Len(filtered_chunks') |->
                filter_chunk(filtered_chunks'[i], resp[filtered_chunks'[i]]).filtered_content]
        /\ stats' = [stats EXCEPT
                !.chunks_filtered = stats.chunks_created - Len(filtered_chunks'),
                !.chunks_retained = Len(filtered_chunks')]
    /\ ppc' = AfterFilter(filtered_chunks')
    /\ UNCHANGED <<pconfig, events, all_chunks, pidx, batch, uploads, storage, embedded,
                   nonpipeline>>

\* The loop of line 162 takes its next pair, or ends: lines 204-210.
NextChunk(i) ==
    IF i < Len(filtered_chunks) THEN "embedding" ELSE "flush"

\* Mutant of EmbedFail: the exception is counted and ends the loop.
EmbedFail_aborts ==
    /\ ppc = "embedding"
    /\ stats' = [stats EXCEPT !.errors = @ + 1]
    /\ pidx' = pidx + 1
    /\ ppc' = "flush"
    /\ UNCHANGED <<pconfig, events, all_chunks, filtered_chunks, batch, uploads,
                   responses, kept_content, storage, embedded, nonpipeline>>

\* Lines 194-201: the embedding of the chunk raises; the handler counts it.
EmbedFail ==
    /\ ppc = "embedding"
    /\ stats' = [stats EXCEPT !.errors = @ + 1]
    /\ pidx' = pidx + 1
    /\ ppc' = NextChunk(pidx')
    /\ UNCHANGED <<pconfig, events, all_chunks, filtered_chunks, batch, uploads,
                   responses, kept_content, storage, embedded, nonpipeline>>

\* Lines 165-192: the chunk is embedded and its snippet joins the batch; a
\* full batch is counted (dry run) or handed to _upload_batch.
EmbedOk ==
    /\ ppc = "embedding"
    /\ embedded' = Append(embedded, filtered_chunks[pidx + 1])
    /\ LET b == Append(batch, filtered_chunks[pidx + 1])
           counted == [stats EXCEPT !.snippets_embedded = @ + 1]
       IN IF Len(b) >= batch_size
          THEN IF ~dry_run
               THEN /\ batch' = b
                    /\ stats' = counted
                    /\ uploads' = Append(uploads, b)
                    /\ ppc' = "uploading"
                    /\ UNCHANGED pidx
               ELSE /\ batch' = <<>>
                    /\ stats' = [counted EXCEPT !.snippets_uploaded = @ + Len(b)]
                    /\ pidx' = pidx + 1
                    /\ ppc' = NextChunk(pidx')
                    /\ UNCHANGED uploads
          ELSE /\ batch' = b
               /\ stats' = counted
               /\ pidx' = pidx + 1
               /\ ppc' = NextChunk(pidx')
               /\ UNCHANGED uploads
    /\ UNCHANGED <<pconfig, events, all_chunks, filtered_chunks, responses,
                   kept_content, storage, nonpipeline>>

\* What the mutation rag:batchAddSnippets may answer for a batch of n
\* snippets: a dict with the counts (whatever they are), a dict without
\* them, or something that is no dict.
StorageResults(n) ==
    {[is_dict |-> TRUE, has_counts |-> TRUE, inserted |-> i, skipped |-> s] :
        i \in 0..n, s \in 0..n}
    \cup {[is_dict |-> d, has_counts |-> FALSE, inserted |-> 0, skipped |-> 0] :
            d \in BOOLEAN}

\* _upload_batch, lines 234-238: the counts it returns for the mutation's
\* answer.
upload_batch(reply, n) ==
    [inserted |-> IF reply.is_dict /\ reply.has_counts THEN reply.inserted ELSE n,
     skipped |-> IF reply.is_dict /\ reply.has_counts THEN reply.skipped ELSE 0]

\* Mutant of CountUpload: the batch length is counted as uploaded, whatever
\* the storage answered.
CountUpload_batch_length(r) ==
    /\ stats' = [stats EXCEPT !.snippets_uploaded = @ + Len(batch)]
    /\ storage' = [storage EXCEPT !.returned = @ + 1,
                                  !.inserted = @ + r.inserted,
                                  !.skipped = @ + r.skipped,
                                  !.exact = @ /\ r.inserted + r.skipped = Len(batch)]

\* Lines 188-189 and 207-208: the returned counts are added to the
\* statistics.
CountUpload(r) ==
    /\ stats' = [stats EXCEPT !.snippets_uploaded = @ + r.inserted,
                              !.snippets_skipped = @ + r.skipped]
    /\ storage' = [storage EXCEPT !.returned = @ + 1,
                                  !.inserted = @ + r.inserted,
                                  !.skipped = @ + r.skipped,
                                  !.exact = @ /\ r.inserted + r.skipped = Len(batch)]

\* Lines 187-192: the upload of the full batch returns; the batch is reset.
UploadOk ==
    /\ ppc = "uploading"
    /\ \E reply \in StorageResults(Len(batch)) :
        CountUpload(upload_batch(reply, Len(batch)))
    /\ batch' = <<>>
    /\ pidx' = pidx + 1
    /\ ppc' = NextChunk(pidx')
    /\ UNCHANGED <<pconfig, events, all_chunks, filtered_chunks, uploads, responses,
                   kept_content, embedded, nonpipeline>>

\* Line 187 raises inside the try: the handler of line 194 counts an error
\* and the loop goes on; "batch = []" of line 192 is not reached.
UploadFail ==
    /\ ppc = "uploading"
    /\ stats' = [stats EXCEPT !.errors = @ + 1]
    /\ storage' = [storage EXCEPT !.raised = @ + 1]
    /\ pidx' = pidx + 1
    /\ ppc' = NextChunk(pidx')
    /\ UNCHANGED <<pconfig, events, all_chunks, filtered_chunks, batch, uploads,
                   responses, kept_content, embedded, nonpipeline>>

\* Mutant of Flush: the remaining batch is uploaded in a dry run too.
Flush_ignores_dry_run ==
    /\ ppc = "flush"
    /\ IF batch = <<>>
       THEN /\ ppc' = "returned"
            /\ UNCHANGED <<stats, uploads>>
       ELSE /\ ppc' = "flushing"
            /\ uploads' = Append(uploads, batch)
            /\ UNCHANGED stats
    /\ UNCHANGED <<pconfig, events, all_chunks, filtered_chunks, pidx, batch,
                   responses, kept_content, storage, embedded, nonpipeline>>

\* Lines 204-213: the remaining batch is counted (dry run) or uploaded, and
\* run returns the statistics.
Flush ==
    /\ ppc = "flush"
    /\ IF batch = <<>>
       THEN /\ ppc' = "returned"
            /\ UNCHANGED <<stats, uploads>>
       ELSE IF ~dry_run
       THEN /\ ppc' = "flushing"
            /\ uploads' = Append(uploads, batch)
            /\ UNCHANGED stats
       ELSE /\ ppc' = "returned"
            /\ stats' = [stats EXCEPT !.snippets_uploaded = @ + Len(batch)]
            /\ UNCHANGED uploads
    /\ UNCHANGED <<pconfig, events, all_chunks, filtered_chunks, pidx, batch,
                   responses, kept_content, storage, embedded, nonpipeline>>

\* Lines 206-208: the final upload returns.
FlushOk ==
    /\ ppc = "flushing"
    /\ \E reply \in StorageResults(Len(batch)) :
        CountUpload(upload_batch(reply, Len(batch)))
    /\ ppc' = "returned"
    /\ UNCHANGED <<pconfig, events, all_chunks, filtered_chunks, pidx, batch, uploads,
                   responses, kept_content, embedded, nonpipeline>>

\* Line 206 raises: no handler encloses it, the exception leaves run.
FlushFail ==
    /\ ppc = "flushing"
    /\ ppc' = "raised"
    /\ storage' = [storage EXCEPT !.raised = @ + 1]
    /\ UNCHANGED <<pconfig, events, all_chunks, filtered_chunks, pidx, batch, stats,
                   uploads, responses, kept_content, embedded, nonpipeline>>

PipelineNext ==
    \/ RunCall
    \/ ScrapeEvent
    \/ ScrapeEnd
    \/ ChunkEvents
    \/ FilterDisabled
    \/ FilterNoKey
    \/ FilterRun
    \/ EmbedFail
    \/ EmbedOk
    \/ UploadOk
    \/ UploadFail
    \/ Flush
    \/ FlushOk
    \/ FlushFail

\* ========================================================================
\* Properties of the pipeline (checked under SpecPipeline)
\* ========================================================================
\* The chunks whose snippets are in a batch.
SnippetsOf(b) == {b[i] : i \in 1..Len(b)}

\* C2: no snippet is handed to batchAddSnippets more than once in a run, also
\* when an upload call fails.
C2_UploadedAtMostOnce ==
    \A i, j \in 1..Len(uploads) :
        i < j => SnippetsOf(uploads[i]) \cap SnippetsOf(uploads[j]) = {}

\* C3: once scraping has started, run ends by returning the statistics and
\* never by raising.
C3_RunNeverRaises == ppc # "raised"

\* C36: every batch handed to _upload_batch holds between 1 and batch_size
\* snippets, and every batch but the last of the run holds exactly
\* batch_size, whichever embedding or upload calls fail.
C36_BatchSizes ==
    \A i \in 1..Len(uploads) :
        /\ 1 <= Len(uploads[i])
        /\ Len(uploads[i]) <= batch_size
        /\ i < Len(uploads) => Len(uploads[i]) = batch_size

\* C37: when run returns after phase 4, snippets_embedded + errors is
\* chunks_retained: each retained chunk was counted once, as embedded or as
\* an error.
C37_EmbeddedPlusErrors ==
    (ppc = "returned" /\ filtered_chunks # <<>>)
        => stats.snippets_embedded + stats.errors = stats.chunks_retained

\* C30: a failure of the storage upload, on a full batch inside the loop over
\* the chunks as well as on the final flush, leaves run as an exception: the
\* step in which the upload raises ends the run, counts no error, and adds
\* nothing to snippets_uploaded or snippets_skipped.
C30_UploadFailurePropagates ==
    [][storage'.raised > storage.raised =>
           /\ ppc' = "raised"
           /\ stats'.errors = stats.errors
           /\ stats'.snippets_uploaded = stats.snippets_uploaded
           /\ stats'.snippets_skipped = stats.snippets_skipped]_vars

\* The chunks phase 3 retained.
RetainedChunks == {filtered_chunks[i] : i \in 1..Len(filtered_chunks)}

\* The phase a position of run belongs to.
PhaseRank(pc) ==
    CASE pc = "pending" -> 0
      [] pc = "scraping" -> 1
      [] pc = "chunking" -> 2
      [] pc = "filtering" -> 3
      [] pc \in {"embedding", "uploading", "flush", "flushing"} -> 4
      [] pc \in {"returned", "raised"} -> 5

\* The statistics of phase 3 add up: chunks_retained is the number of
\* returned pairs and chunks_filtered the rest of chunks_created; without
\* filter calls nothing is filtered.
FilterStatsAddUp ==
    PhaseRank(ppc) >= 4 =>
        /\ stats.chunks_retained = Len(filtered_chunks)
        /\ stats.chunks_filtered + stats.chunks_retained = stats.chunks_created
        /\ stats.chunks_created = all_chunks
        /\ responses = <<>> => (stats.chunks_filtered = 0 /\ Len(filtered_chunks) = all_chunks)

\* C14 as stated: a chunk is excluded from the filter result exactly when
\* its filter response is the sentinel NO_CONTENT or the empty text, and the
\* statistics of phase 3 count these chunks and add up.
C14_ExcludedIffSentinelOrEmpty ==
    /\ responses # <<>> =>
        \A k \in 1..all_chunks :
            k \notin RetainedChunks
                <=> (~responses[k].raised /\ responses[k].text \in {NO_CONTENT, <<>>})
    /\ FilterStatsAddUp

\* C14 amended: a chunk is excluded from the filter result exactly when its
\* filter response, with leading and trailing whitespace removed, is the
\* sentinel NO_CONTENT or empty; chunks_filtered is the number of these
\* chunks, chunks_retained the number of returned pairs, and the two add up
\* to chunks_created (with chunks_filtered = 0 when no filter call is made).
C14_ExcludedIffStrippedSentinelOrEmpty ==
    /\ responses # <<>> =>
        LET Removed == {k \in 1..all_chunks :
                        ~responses[k].raised
                        /\ strip(responses[k].text) \in {NO_CONTENT, <<>>}}
        IN /\ \A k \in 1..all_chunks : k \notin RetainedChunks <=> k \in Removed
           /\ stats.chunks_filtered = Cardinality(Removed)
    /\ FilterStatsAddUp

\* C14 witness: the filter phase is over; one chunk was answered with the
\* sentinel, one with whitespace only, one call failed and one chunk was
\* rewritten: two are filtered and two retained.
C14_Witness ==
    /\ PhaseRank(ppc) >= 4
    /\ all_chunks = 4
    /\ responses # <<>>
    /\ \E k \in 1..all_chunks : ~responses[k].raised /\ responses[k].text = NO_CONTENT
    /\ \E k \in 1..all_chunks : ~responses[k].raised /\ responses[k].text = Blank
    /\ \E k \in 1..all_chunks : responses[k].raised
    /\ stats.chunks_filtered = 2
    /\ stats.chunks_retained = 2

\* C15: run goes through scraping, chunking, filtering, embedding-uploading
\* and completion in this order and re-enters none: nothing is chunked
\* while the source is read, no filter call is made before the chunking
\* is done, and nothing is embedded or uploaded before the filter phase is
\* over.
C15_PhasesInOrder ==
    /\ [][PhaseRank(ppc') >= PhaseRank(ppc)]_pvars
    /\ [](/\ PhaseRank(ppc) <= 1 => (all_chunks = 0 /\ stats.chunks_created = 0)
          /\ PhaseRank(ppc) <= 2 => (responses = <<>> /\ filtered_chunks = <<>>)
          /\ PhaseRank(ppc) >= 3 => all_chunks >= events
          /\ PhaseRank(ppc) <= 3 =>
                /\ embedded = <<>>
                /\ uploads = <<>>
                /\ batch = <<>>
                /\ pidx = 0
                /\ stats.snippets_embedded = 0
                /\ stats.snippets_uploaded = 0
                /\ stats.errors = 0)

\* C15 witness: a run went through every phase, with filter calls, and has
\* returned after two uploads.
C15_Witness ==
    /\ ppc = "returned"
    /\ events = 2
    /\ responses # <<>>
    /\ Len(embedded) >= 2
    /\ Len(uploads) = 2

\* C16: when no event is scraped run returns with every counter 0 and
\* without a filter, embedding or storage call; when the filter retains no
\* chunk run returns without an embedding or storage call.
C16_EmptyPhaseShortCircuits ==
    /\ (PhaseRank(ppc) >= 2 /\ events = 0) =>
            /\ ppc = "returned"
            /\ stats = NewStats
            /\ responses = <<>>
    /\ (PhaseRank(ppc) >= 4 /\ filtered_chunks = <<>>) =>
            /\ ppc = "returned"
            /\ stats.snippets_embedded = 0
            /\ stats.snippets_uploaded = 0
            /\ stats.snippets_skipped = 0
            /\ stats.errors = 0
    /\ (events = 0 \/ filtered_chunks = <<>>) =>
            /\ embedded = <<>>
            /\ uploads = <<>>
            /\ storage = NoStorage
            /\ pidx = 0

\* C16 witness: several chunks went to the filter, none was retained, and
\* run has returned.
C16_Witness ==
    /\ ppc = "returned"
    /\ all_chunks >= 2
    /\ responses # <<>>
    /\ filtered_chunks = <<>>
    /\ stats.chunks_filtered = all_chunks

\* C17: a step of the loop in which the embedding of a chunk fails adds one
\* to errors, leaves the batch, the uploads and the counters of embedded,
\* uploaded and skipped snippets alone, and the loop goes on with the next
\* retained chunk; the loop ends only when it has taken every retained
\* chunk.
C17_EmbeddingFailureIsolated ==
    /\ [][(ppc = "embedding" /\ embedded' = embedded) =>
            /\ stats' = [stats EXCEPT !.errors = @ + 1]
            /\ UNCHANGED <<batch, uploads, storage, filtered_chunks>>
            /\ pidx' = pidx + 1
            /\ ppc' = IF pidx' < Len(filtered_chunks) THEN "embedding" ELSE "flush"]_pvars
    /\ [](ppc \in {"flush", "flushing"} => pidx = Len(filtered_chunks))

\* C17 witness: the embedding of the first retained chunk failed and the
\* later ones were embedded and uploaded.
C17_Witness ==
    /\ ppc = "returned"
    /\ Len(filtered_chunks) >= 3
    /\ stats.errors = 1
    /\ storage.raised = 0
    /\ embedded = Tail(filtered_chunks)
    /\ stats.snippets_uploaded = 2

\* C18: in a dry run no call is made to the storage, snippets_skipped stays
\* 0 and at completion snippets_uploaded = snippets_embedded; with the
\* filter disabled chunks_filtered = 0 and events_scraped is the number of
\* events the source yielded.
C18_DryRun ==
    /\ dry_run =>
        /\ uploads = <<>>
        /\ storage = NoStorage
        /\ ppc \notin {"uploading", "flushing"}
        /\ stats.snippets_skipped = 0
        /\ ppc = "returned" => stats.snippets_uploaded = stats.snippets_embedded
    /\ ~use_llm_filter =>
        /\ stats.chunks_filtered = 0
        /\ responses = <<>>
        /\ stats.events_scraped = events

\* C18 witness: a dry run without filter has returned after a full batch
\* and a remaining one, with one embedding failure.
C18_Witness ==
    /\ dry_run
    /\ ~use_llm_filter
    /\ ppc = "returned"
    /\ batch_size = 2
    /\ stats.events_scraped = 2
    /\ stats.snippets_embedded = 3
    /\ stats.errors = 1

\* C19: in a run that is no dry run and in which no upload call fails,
\* snippets_uploaded is the sum of the inserted counts and snippets_skipped
\* the sum of the skipped counts the upload calls returned; when each call
\* returned inserted + skipped = the batch length, snippets_uploaded +
\* snippets_skipped = snippets_embedded at completion.
C19_UploadCounts ==
    (~dry_run /\ storage.raised = 0) =>
        /\ stats.snippets_uploaded = storage.inserted
        /\ stats.snippets_skipped = storage.skipped
        /\ (ppc = "returned" /\ storage.exact) =>
                stats.snippets_uploaded + stats.snippets_skipped = stats.snippets_embedded

\* C19 witness: a run has returned after two upload calls that both
\* succeeded, one reporting a skipped duplicate.
C19_Witness ==
    /\ ~dry_run
    /\ ppc = "returned"
    /\ storage.raised = 0
    /\ storage.returned = 2
    /\ storage.exact
    /\ storage.skipped >= 1
    /\ storage.inserted >= 2

RECURSIVE Flatten(_)
\* C22: when the filter cannot be constructed for lack of credentials, run
\* goes on: that step hands every created chunk to phase 4 with its original
\* content, sets chunks_retained to chunks_created, leaves chunks_filtered
\* at 0 and errors as it was, and the embedding of the chunks starts.
C22_MissingCredentialsPassThrough ==
    [][(ppc = "filtering" /\ use_llm_filter /\ ppc' # ppc /\ responses' = <<>>)
        => /\ ppc' = "embedding"
           /\ Len(filtered_chunks') = stats.chunks_created
           /\ \A k \in 1..all_chunks :
                 filtered_chunks'[k] = k /\ kept_content'[k] = Content(k)
           /\ Len(kept_content') = all_chunks
           /\ stats'.chunks_retained = stats.chunks_created
           /\ stats'.chunks_created = stats.chunks_created
           /\ stats'.chunks_filtered = 0
           /\ stats'.errors = stats.errors]_vars

\* C22 witness: filtering was enabled, no external filter call was made,
\* and run has embedded every created chunk and returned without an error.
C22_Witness ==
    /\ use_llm_filter
    /\ responses = <<>>
    /\ ppc = "returned"
    /\ all_chunks >= 2
    /\ kept_content = PassThrough(all_chunks)
    /\ stats.chunks_retained = all_chunks
    /\ stats.snippets_embedded = all_chunks
    /\ stats.errors = 0

\* The concatenation of a list of batches.
Flatten(bs) == IF bs = <<>> THEN <<>> ELSE Head(bs) \o Flatten(Tail(bs))

\* C20: the batches reach the storage in the order they were filled, each
\* with its snippets in the order of embedding: the concatenation of the
\* uploaded batches is the list of the embedded chunks, which is in
\* filter-output order.
C20_UploadsInProcessingOrder ==
    /\ \A i, j \in 1..Len(embedded) : i < j => embedded[i] < embedded[j]
    /\ (~dry_run /\ ppc \in {"returned", "raised"}) => Flatten(uploads) = embedded

\* ========================================================================
\* ProcessedSnippet and the storage collaborator
\* ========================================================================
MaxSnippets == 2
MaxUploads == 2

\* What pipeline.py:167-180 passes to the constructor: the filtered content
\* of a retained chunk, the event_date of the chunk (an integer number of
\* milliseconds, calendar.timegm(...) * 1000) and its title. Two chunks of
\* one event share the date; the filter may return one text for both.
SnippetContents == {Content(1), Rewritten(1)}
EventDates == {0, 1000}
Titles == {"t1", "t2"}

\* hashlib.md5(...).hexdigest(): the digest of a character sequence, taken
\* as free of collisions.
md5(text) == [digest |-> text]
\* content_hash = None
NoHash == [digest |-> <<>>]

\* f"{self.content}:{self.event_date}": the content, a colon and the
\* decimal rendering of the date.
hash_input(content, event_date) == content \o <<":", ToString(event_date)>>

\* Mutant of post_init: the title takes part in the digest.
post_init_with_title(s) ==
    IF s.content_hash = NoHash
    THEN [s EXCEPT !.content_hash =
             md5(hash_input(s.content, s.event_date) \o <<s.title>>)]
    ELSE s

\* ProcessedSnippet.__post_init__: the hash is generated unless one was
\* passed in.
post_init(s) ==
    IF s.content_hash = NoHash
    THEN [s EXCEPT !.content_hash = md5(hash_input(s.content, s.event_date))]
    ELSE s

\* The dataclass constructor, for the fields the hash and the upload read.
ProcessedSnippet(content, event_date, title, content_hash) ==
    post_init([content |-> content, event_date |-> event_date,
               title |-> title, content_hash |-> content_hash])

\* ProcessedSnippet.to_convex_doc
to_convex_doc(s) ==
    [content |-> s.content, eventDate |-> s.event_date, title |-> s.title,
     contentHash |-> s.content_hash]

\* The storage's batch insert: it goes through the documents in order, skips
\* one whose contentHash it holds already and inserts the others, and
\* answers with the two counts.
RECURSIVE batchAddSnippets(_, _)
batchAddSnippets(held, docs) ==
    IF docs = <<>>
    THEN [store |-> held, inserted |-> 0, skipped |-> 0]
    ELSE LET h == Head(docs).contentHash
             rest == batchAddSnippets(held \cup {h}, Tail(docs))
         IN  IF h \in held
             THEN [rest EXCEPT !.skipped = @ + 1]
             ELSE [rest EXCEPT !.inserted = @ + 1]

NoReply == [inserted |-> 0, skipped |-> 0]

StorageConstructed ==
    /\ snippets = <<>>
    /\ store = {}
    /\ sbatch = <<>>
    /\ sreply = NoReply
    /\ sent = {}
    /\ ncalls = 0

\* The <<content, event_date>> pair of a snippet.
KeyOf(s) == <<s.content, s.event_date>>

\* pipeline.py:167-181: a snippet is constructed; no content_hash is passed.
SnippetNew(content, event_date, title) ==
    /\ Len(snippets) < MaxSnippets
    /\ snippets' = Append(snippets,
                          ProcessedSnippet(content, event_date, title, NoHash))
    /\ UNCHANGED <<store, sbatch, sreply, sent, ncalls>>
    /\ UNCHANGED nonstorage

\* The batches run may hand over: lists of distinct snippet objects; a
\* snippet of a batch whose upload raised is handed over again.
Batches ==
    {b \in UNION {[1..n -> 1..Len(snippets)] : n \in 1..MaxBatchSize} :
        \A i, j \in 1..Len(b) : b[i] = b[j] => i = j}

\* _upload_batch: the documents of the batch go to the mutation, and its
\* counts are returned.
UploadBatch(b) ==
    LET docs == [i \in 1..Len(b) |-> to_convex_doc(snippets[b[i]])]
        answer == batchAddSnippets(store, docs)
        reply == [is_dict |-> TRUE, has_counts |-> TRUE,
                  inserted |-> answer.inserted, skipped |-> answer.skipped]
    IN  /\ ncalls < MaxUploads
        /\ ncalls' = ncalls + 1
        /\ store' = answer.store
        /\ sbatch' = b
        /\ sreply' = upload_batch(reply, Len(b))
        /\ sent' = sent \cup {KeyOf(snippets[sbatch[j]]) : j \in 1..Len(sbatch)}
        /\ UNCHANGED snippets
        /\ UNCHANGED nonstorage

StorageNext ==
    \/ \E c \in SnippetContents, d \in EventDates, t \in Titles : SnippetNew(c, d, t)
    \/ \E b \in Batches : UploadBatch(b)

\* ------------------------------------------------------------------------
\* Properties of the content hash
\* ------------------------------------------------------------------------
\* The positions of the latest batch whose snippet has the content and the
\* event_date of a snippet uploaded before: in an earlier call, or earlier
\* in this batch.
Repeats ==
    {i \in 1..Len(sbatch) :
        \/ KeyOf(snippets[sbatch[i]]) \in sent
        \/ \E j \in 1..(i - 1) :
              KeyOf(snippets[sbatch[j]]) = KeyOf(snippets[sbatch[i]])}

\* C21: two snippets with the same content and the same event_date have the
\* same content_hash, and of an uploaded batch exactly the snippets whose
\* content and event_date were uploaded before are counted as skipped, the
\* others as inserted.
C21_SameSnippetSameHash ==
    /\ \A i, j \in 1..Len(snippets) :
          KeyOf(snippets[i]) = KeyOf(snippets[j])
              => snippets[i].content_hash = snippets[j].content_hash
    /\ sreply.skipped = Cardinality(Repeats)
    /\ sreply.inserted = Len(sbatch) - Cardinality(Repeats)

\* The same snippet has been uploaded a second time, in a call of its own.
C21_Witness ==
    /\ ncalls = 2
    /\ Len(sbatch) = 1
    /\ KeyOf(snippets[sbatch[1]]) \in sent
    /\ sreply = [inserted |-> 0, skipped |-> 1]


\* ========================================================================
\* TextChunker
\* ========================================================================
MaxSentences == 4

\* A text is a sequence of pieces: a sentence, with its position in the
\* content as id and its number of characters, or a run of whitespace
\* (id 0). A sentence is a stretch of text the pattern of _split_sentences
\* does not split; the whitespace between two sentences is a place where it
\* does.
Sentence(i, n) == [id |-> i, len |-> n]
Space(n) == [id |-> 0, len |-> n]

\* len(text)
RECURSIVE len(_)
len(text) == IF text = <<>> THEN 0 ELSE Head(text).len + len(Tail(text))

\* text.strip()
RECURSIVE text_lstrip(_)
text_lstrip(text) ==
    IF text # <<>> /\ Head(text).id = 0 THEN text_lstrip(Tail(text)) ELSE text
RECURSIVE text_rstrip(_)
text_rstrip(text) ==
    IF text # <<>> /\ text[Len(text)].id = 0
    THEN text_rstrip(SubSeq(text, 1, Len(text) - 1))
    ELSE text
text_strip(text) == text_rstrip(text_lstrip(text))

\* " ".join(texts)
RECURSIVE join(_)
join(texts) ==
    IF texts = <<>> THEN <<>>
    ELSE IF Len(texts) = 1 THEN Head(texts)
    ELSE Head(texts) \o <<Space(1)>> \o join(Tail(texts))

\* The content of an event: sentences of the lengths ls, gap characters of
\* whitespace between two of them and pad characters of whitespace at both
\* ends.
RECURSIVE Sentences(_, _, _)
Sentences(ls, i, gap) ==
    IF i > Len(ls) THEN <<>>
    ELSE (IF i > 1 THEN <<Space(gap)>> ELSE <<>>)
            \o <<Sentence(i, ls[i])>> \o Sentences(ls, i + 1, gap)
Text(ls, gap, pad) ==
    (IF pad > 0 THEN <<Space(pad)>> ELSE <<>>)
        \o Sentences(ls, 1, gap)
        \o (IF pad > 0 THEN <<Space(pad)>> ELSE <<>>)

\* Sentence lengths around the sizes of the configurations below.
SentenceLengths == {40, 59, 99, 300, 500, 699, 1100, 1200}
Contents ==
    {Text(ls, gap, pad) :
        ls \in UNION {[1..n -> SentenceLengths] : n \in 0..MaxSentences},
        gap \in {1, 2}, pad \in {0, 1}}

\* A datetime: whole seconds since the epoch (negative before 1970) and
\* the microsecond field.
DateTime(secs, micro) == [seconds |-> secs, microsecond |-> micro]
\* HistoricalEvent.event_timestamp and publication_timestamp:
\* calendar.timegm(d.timetuple()) * 1000; the time tuple has no
\* microseconds.
timestamp(d) == d.seconds * 1000

\* The events a scraper hands over, but for their content.
Events ==
    {[title |-> "Fall of Constantinople",
      event_date |-> DateTime(-16302, 0), publication_date |-> DateTime(-16302, 0),
      source_url |-> "u1", region |-> "Anatolia", tags |-> <<"siege">>,
      participants |-> <<"Ottoman", "Byzantine">>],
     [title |-> "Battle of Antietam",
      event_date |-> DateTime(-3386, 0), publication_date |-> DateTime(-3300, 500),
      source_url |-> "u2", region |-> "Maryland", tags |-> <<>>,
      participants |-> <<"Union", "Confederacy">>]}

\* The chunk sizes and overlaps a Pipeline is constructed with: the
\* defaults 500 and 100, a smaller pair, and a pair with a chunk size under
\* the minimum; min_chunk_size is always the default.
ChunkerConfigs == {<<500, 100>>, <<300, 40>>, <<50, 10>>}
default_min_chunk_size == 100

\* TextChunker.__init__, and the argument of the call.
ChunkerConstructed(size, overlap, e, content) ==
    /\ chunk_size = size
    /\ chunk_overlap = overlap
    /\ min_chunk_size = default_min_chunk_size
    /\ event = [content |-> content, meta |-> e]
    /\ cpc = "called"
    /\ returned = <<>>

ChunkerInit ==
    \E cfg \in ChunkerConfigs, e \in Events, content \in Contents :
        ChunkerConstructed(cfg[1], cfg[2], e, content)

ChunkerDefaults ==
    ChunkerConstructed(500, 100, CHOOSE e \in Events : e.source_url = "u1", <<>>)

\* Mutant of Chunk: the index counts from one.
Chunk_index_from_one(content, chunk_index, total_chunks, e) ==
    [content |-> content,
     chunk_index |-> chunk_index + 1,
     total_chunks |-> total_chunks,
     parent_title |-> e.meta.title,
     event_date |-> timestamp(e.meta.event_date),
     publication_date |-> timestamp(e.meta.publication_date),
     source_url |-> e.meta.source_url,
     region |-> e.meta.region,
     tags |-> e.meta.tags,
     participants |-> e.meta.participants]

\* Chunk(...), lines 75-86 and 99-110.
Chunk(content, chunk_index, total_chunks, e) ==
    [content |-> content,
     chunk_index |-> chunk_index,
     total_chunks |-> total_chunks,
     parent_title |-> e.meta.title,
     event_date |-> timestamp(e.meta.event_date),
     publication_date |-> timestamp(e.meta.publication_date),
     source_url |-> e.meta.source_url,
     region |-> e.meta.region,
     tags |-> e.meta.tags,
     participants |-> e.meta.participants]

\* _split_sentences: the text between the split places, each piece
\* stripped, the empty ones left out.
split_sentences(text) ==
    LET ids == {i \in 1..Len(text) : text[i].id # 0}
        RECURSIVE pieces(_)
        pieces(i) ==
            IF i > Len(text) THEN <<>>
            ELSE (IF i \in ids THEN <<<<text[i]>>>> ELSE <<>>) \o pieces(i + 1)
    IN  pieces(1)

\* Mutant of overlap_loop: the last sentence is carried over whatever its
\* length.
RECURSIVE overlap_loop_unbounded(_, _, _, _)
overlap_loop_unbounded(sentences, i, overlap_sentences, total_length) ==
    IF i = 0 THEN overlap_sentences
    ELSE IF total_length = 0 \/ total_length + len(sentences[i]) <= chunk_overlap
    THEN overlap_loop_unbounded(sentences, i - 1, <<sentences[i]>> \o overlap_sentences,
                                total_length + len(sentences[i]) + 1)
    ELSE overlap_sentences

\* The loop of _get_overlap_sentences, lines 211-216, at sentence i of the
\* reversed list.
RECURSIVE overlap_loop(_, _, _, _)
overlap_loop(sentences, i, overlap_sentences, total_length) ==
    IF i = 0 THEN overlap_sentences
    ELSE IF total_length + len(sentences[i]) <= chunk_overlap
    THEN overlap_loop(sentences, i - 1, <<sentences[i]>> \o overlap_sentences,
                      total_length + len(sentences[i]) + 1)
    ELSE overlap_sentences

\* _get_overlap_sentences
get_overlap_sentences(sentences) ==
    IF sentences = <<>> THEN <<>>
    ELSE join(overlap_loop(sentences, Len(sentences), <<>>, 0))

\* The loop of _group_sentences, lines 167-185, at sentence i.
RECURSIVE group_loop(_, _, _, _, _)
group_loop(sentences, i, chunks_text, current_chunk, current_length) ==
    IF i > Len(sentences)
    THEN [chunks |-> chunks_text, current_chunk |-> current_chunk]
    ELSE LET sentence == sentences[i]
             sentence_len == len(sentence)
             full == current_length + sentence_len > chunk_size /\ current_chunk # <<>>
             overlap_text == get_overlap_sentences(current_chunk)
             saved == IF full THEN Append(chunks_text, join(current_chunk))
                              ELSE chunks_text
             started == IF ~full THEN current_chunk
                        ELSE IF overlap_text # <<>> THEN <<overlap_text>> ELSE <<>>
             length == IF ~full THEN current_length ELSE len(overlap_text)
         IN  group_loop(sentences, i + 1, saved, Append(started, sentence),
                        length + sentence_len + 1)

\* Mutant of group_sentences: the last group is a chunk of its own whatever
\* its length.
group_sentences_final_standalone(sentences) ==
    IF sentences = <<>> THEN <<>>
    ELSE LET r == group_loop(sentences, 1, <<>>, <<>>, 0)
             final_chunk == join(r.current_chunk)
         IN  IF r.current_chunk = <<>> THEN r.chunks
             ELSE Append(r.chunks, final_chunk)

\* Mutant of group_sentences: a last group under the minimum is left out.
group_sentences_short_dropped(sentences) ==
    IF sentences = <<>> THEN <<>>
    ELSE LET r == group_loop(sentences, 1, <<>>, <<>>, 0)
             final_chunk == join(r.current_chunk)
         IN  IF r.current_chunk = <<>> THEN r.chunks
             ELSE IF len(final_chunk) >= min_chunk_size \/ r.chunks = <<>>
             THEN Append(r.chunks, final_chunk)
             ELSE r.chunks

\* _group_sentences
group_sentences(sentences) ==
    IF sentences = <<>> THEN <<>>
    ELSE LET r == group_loop(sentences, 1, <<>>, <<>>, 0)
             final_chunk == join(r.current_chunk)
         IN  IF r.current_chunk = <<>> THEN r.chunks
             ELSE IF len(final_chunk) >= min_chunk_size \/ r.chunks = <<>>
             THEN Append(r.chunks, final_chunk)
             ELSE [r.chunks EXCEPT ![Len(r.chunks)] = @ \o <<Space(1)>> \o final_chunk]

\* Mutant of chunk_event: a short content is returned as it came, not
\* stripped.
chunk_event_unstripped(e) ==
    LET content == text_strip(e.content)
    IN  IF len(content) <= chunk_size
        THEN <<Chunk(e.content, 0, 1, e)>>
        ELSE LET chunks_text == group_sentences(split_sentences(content))
             IN  [i \in 1..Len(chunks_text) |->
                     Chunk(chunks_text[i], i - 1, Len(chunks_text), e)]

\* TextChunker.chunk_event
chunk_event(e) ==
    LET content == text_strip(e.content)
    IN  IF len(content) <= chunk_size
        THEN <<Chunk(content, 0, 1, e)>>
        ELSE LET chunks_text == group_sentences(split_sentences(content))
             IN  [i \in 1..Len(chunks_text) |->
                     Chunk(chunks_text[i], i - 1, Len(chunks_text), e)]

\* The call returns.
ChunkEventReturn ==
    /\ cpc = "called"
    /\ returned' = chunk_event(event)
    /\ cpc' = "returned"
    /\ UNCHANGED <<chunk_size, chunk_overlap, min_chunk_size, event>>
    /\ UNCHANGED nonchunker

ChunkerNext == ChunkEventReturn

\* ------------------------------------------------------------------------
\* Properties of the chunker
\* ------------------------------------------------------------------------
\* C23: for an event whose stripped content has at most chunk_size
\* characters, the empty content included, chunk_event returns exactly one
\* chunk: its content is the stripped original, its chunk_index is 0 and
\* its total_chunks is 1.
C23_ShortContentOneChunk ==
    (cpc = "returned" /\ len(text_strip(event.content)) <= chunk_size)
        => /\ Len(returned) = 1
           /\ returned[1].content = text_strip(event.content)
           /\ returned[1].chunk_index = 0
           /\ returned[1].total_chunks = 1

\* C23 witness: a content with whitespace at its ends and exactly
\* chunk_size characters between them came back as one chunk.
C23_Witness ==
    /\ cpc = "returned"
    /\ event.content # text_strip(event.content)
    /\ len(text_strip(event.content)) = chunk_size
    /\ Len(returned) = 1
    /\ returned[1].content = text_strip(event.content)

\* C24: in the list chunk_event returns, the chunk at position i (counted
\* from 0) has chunk_index i, every chunk has the length of the list as
\* total_chunks, so 0 <= chunk_index < total_chunks, and every chunk has
\* the event's event and publication timestamps, source_url, region, tags
\* and participants.
C24_IndicesAndMetadata ==
    cpc = "returned" =>
        \A i \in 1..Len(returned) :
            /\ returned[i].chunk_index = i - 1
            /\ returned[i].total_chunks = Len(returned)
            /\ 0 <= returned[i].chunk_index
            /\ returned[i].chunk_index < returned[i].total_chunks
            /\ returned[i].event_date = timestamp(event.meta.event_date)
            /\ returned[i].publication_date = timestamp(event.meta.publication_date)
            /\ returned[i].source_url = event.meta.source_url
            /\ returned[i].region = event.meta.region
            /\ returned[i].tags = event.meta.tags
            /\ returned[i].participants = event.meta.participants

\* C24 witness: an event whose publication date is not its event date came
\* back as three chunks or more.
C24_Witness ==
    /\ cpc = "returned"
    /\ Len(returned) >= 3
    /\ event.meta.publication_date # event.meta.event_date
    /\ returned[3].chunk_index = 2
    /\ returned[3].publication_date # returned[3].event_date

\* The text two consecutive chunks share: the longest end of the first that
\* is the start of the second, joining blanks included.
Shared(first, second) ==
    LET ks == {k \in 0..Min(Len(first), Len(second)) :
                  SubSeq(first, Len(first) - k + 1, Len(first)) = SubSeq(second, 1, k)}
        longest == CHOOSE k \in ks : \A j \in ks : j <= k
    IN  SubSeq(second, 1, longest)

\* C25: the text carried over from the end of a chunk to the start of the
\* next chunk of the event has at most chunk_overlap characters, the blanks
\* that join the carried sentences included.
C25_OverlapBound ==
    cpc = "returned" =>
        \A i \in 1..(Len(returned) - 1) :
            len(Shared(returned[i].content, returned[i + 1].content)) <= chunk_overlap

\* C25 witness: two sentences were carried over, and with their joining
\* blank they have exactly chunk_overlap characters.
C25_Witness ==
    /\ cpc = "returned"
    /\ \E i \in 1..(Len(returned) - 1) :
          LET carried == Shared(returned[i].content, returned[i + 1].content)
          IN  Len(carried) = 3 /\ len(carried) = chunk_overlap

\* C26: for a content of 1200 characters, chunk_event with chunk_size 500
\* and chunk_overlap 100 returns three chunks or more, none of them empty.
C26_LongContentThreeChunks ==
    (cpc = "returned" /\ chunk_size = 500 /\ chunk_overlap = 100
                      /\ len(event.content) = 1200)
        => /\ Len(returned) >= 3
           /\ \A i \in 1..Len(returned) : len(returned[i].content) > 0

\* C31: for a content longer than chunk_size, no chunk chunk_event returns
\* has more than chunk_size characters.
C31_ChunkWithinSize ==
    (cpc = "returned" /\ len(text_strip(event.content)) > chunk_size)
        => \A i \in 1..Len(returned) : len(returned[i].content) <= chunk_size

\* The chunks closed by the loop of _group_sentences and the group left
\* when it ends, for the content of the event.
Grouped == group_loop(split_sentences(text_strip(event.content)), 1, <<>>, <<>>, 0)

\* C32: when the loop has closed a chunk and the group it leaves is shorter
\* than min_chunk_size, the group is appended to the last closed chunk after
\* a blank and no chunk is added; when the loop has closed no chunk, the
\* group is the one chunk, whatever its length.
C32_ShortFinalGroupMerged ==
    (cpc = "returned" /\ len(text_strip(event.content)) > chunk_size)
        => LET closed == Grouped.chunks
               final_chunk == join(Grouped.current_chunk)
               n == Len(closed)
           IN  /\ (n > 0 /\ len(final_chunk) < min_chunk_size)
                    => /\ Len(returned) = n
                       /\ \A i \in 1..(n - 1) : returned[i].content = closed[i]
                       /\ returned[n].content
                            = closed[n] \o <<Space(1)>> \o final_chunk
               /\ n = 0
                    => /\ Len(returned) = 1
                       /\ returned[1].content = final_chunk

\* C32 witness: a chunk was closed and the short group left was appended to
\* it.
C32_Witness ==
    /\ cpc = "returned"
    /\ len(text_strip(event.content)) > chunk_size
    /\ Len(Grouped.chunks) >= 2
    /\ Grouped.current_chunk # <<>>
    /\ len(join(Grouped.current_chunk)) < min_chunk_size
    /\ Len(returned) = Len(Grouped.chunks)

\* C32 witness of the other case: the only group, shorter than
\* min_chunk_size, came back as the one chunk.
C32_WitnessOnlyGroup ==
    /\ cpc = "returned"
    /\ len(text_strip(event.content)) > chunk_size
    /\ Grouped.chunks = <<>>
    /\ len(join(Grouped.current_chunk)) < min_chunk_size
    /\ Len(returned) = 1

\* The positions in the content of the sentences a text holds.
SentenceIds(text) == {text[j].id : j \in 1..Len(text)} \ {0}

\* C39: for a content longer than chunk_size, every sentence of the split
\* is in a returned chunk, whole; the first chunk holds a sentence and every
\* later chunk holds a sentence its predecessor does not hold; and
\* chunk_event returns a chunk at least, whatever the content.
C39_NoTextLost ==
    cpc = "returned" =>
        /\ Len(returned) >= 1
        /\ len(text_strip(event.content)) > chunk_size
            => /\ \A j \in 1..Len(event.content) :
                    event.content[j].id # 0
                        => \E i \in 1..Len(returned) :
                              \E m \in 1..Len(returned[i].content) :
                                  returned[i].content[m] = event.content[j]
               /\ SentenceIds(returned[1].content) # {}
               /\ \A i \in 2..Len(returned) :
                    SentenceIds(returned[i].content)
                        \ SentenceIds(returned[i - 1].content) # {}

\* C39 witness: a chunk started with a carried-over sentence, and the short
\* group left at the end was appended to the last chunk.
C39_Witness ==
    /\ cpc = "returned"
    /\ len(text_strip(event.content)) > chunk_size
    /\ Len(returned) >= 2
    /\ \E i \in 2..Len(returned) :
          SentenceIds(returned[i].content) \cap SentenceIds(returned[i - 1].content) # {}
    /\ Grouped.current_chunk # <<>>
    /\ len(join(Grouped.current_chunk)) < min_chunk_size
    /\ Len(returned) = Len(Grouped.chunks)

\* ========================================================================
\* The scrape stream (scrapers/constantinople.py) and the HTTP clients of a
\* run (phases 1 and 3 of Pipeline.run)
\* ========================================================================
MaxSources == 3
MaxDocEvents == 2
MaxLimit == 3

\* WIKIPEDIA_SOURCES_1453, by position in the list.
WIKIPEDIA_SOURCES == 1..MaxSources

\* limit: int | None
NoLimit == [given |-> FALSE, n |-> 0]
Limit(n) == [given |-> TRUE, n |-> n]
Limits == {NoLimit} \cup {Limit(n) : n \in 0..MaxLimit}

\* "if limit": None and 0 are both false.
Truthy(l) == l.given /\ l.n # 0

\* What parse_document may return for source i: a list of events, each
\* with its position in the list and whether its year is in the date range.
Docs(i) ==
    UNION {{[k \in 1..m |-> [url |-> i, n |-> k, in_range |-> f[k]]] :
                f \in [1..m -> BOOLEAN]} : m \in 0..MaxDocEvents}

CancelledError == "CancelledError"
SourceError == "SourceError"

ScrapeConstructed(l) ==
    /\ limit = l
    /\ rpc = "pending"
    /\ scraper_client = "none"
    /\ llm_client = "none"
    /\ url_index = 0
    /\ doc_events = <<>>
    /\ count = 0
    /\ scraped = <<>>
    /\ raising = None
    /\ fetches = <<>>
    /\ url_failed = {}

ScrapeInit == \E l \in Limits : ScrapeConstructed(l)

\* One configuration, for the specifications in which no run is made.
ScrapeDefaults == ScrapeConstructed(NoLimit)

\* Mutant of aexit: the client is left as it is.
aexit_leaves_open(client) == client

\* __aexit__ of BaseScraper and of LLMFilter: a client that is set is
\* closed and the attribute is cleared ("closed"); nothing otherwise.
aexit(client) == IF client = "open" THEN "closed" ELSE client

\* "async with self.scraper" (pipeline.py, line 109): __aenter__ makes the
\* client, and scrape is called.
EnterScraper ==
    /\ rpc = "pending"
    /\ scraper_client' = "open"
    /\ rpc' = "loop"
    /\ UNCHANGED <<limit, llm_client, url_index, doc_events, count, scraped, raising,
                   fetches, url_failed, nonscrape>>

\* Lines 85 and 98 of scrape: "limit and count >= limit".
LimitReached == Truthy(limit) /\ count >= limit.n

\* Lines 84-86: the list of sources is exhausted, or the limit is reached at
\* the top of the loop; the stream ends.
SourceStop ==
    /\ rpc = "loop"
    /\ url_index = MaxSources \/ LimitReached
    /\ rpc' = "exit"
    /\ UNCHANGED <<limit, scraper_client, llm_client, url_index, doc_events, count,
                   scraped, raising, fetches, url_failed, nonscrape>>

\* Mutant of HandleSourceFailure: the exception leaves scrape.
HandleSourceFailure_escapes(i, at) ==
    /\ url_failed' = url_failed \cup {[url |-> i, at |-> at]}
    /\ url_index' = i
    /\ raising' = SourceError
    /\ rpc' = "exit"

\* Lines 102-104: the exception of source i is logged and the loop goes on
\* with the next source.
HandleSourceFailure(i, at) ==
    /\ url_failed' = url_failed \cup {[url |-> i, at |-> at]}
    /\ url_index' = i
    /\ raising' = raising
    /\ rpc' = "loop"

\* The fetch call of line 89 for the next source.
FetchNextSource ==
    /\ rpc = "loop"
    /\ url_index < MaxSources
    /\ ~LimitReached
    /\ fetches' = Append(fetches, [url |-> url_index + 1, count |-> count,
                                   client |-> scraper_client])

\* Lines 89-90: fetch and parse_document return the events of the source.
SourceFetchOk ==
    /\ FetchNextSource
    /\ \E doc \in Docs(url_index + 1) : doc_events' = doc
    /\ rpc' = "events"
    /\ UNCHANGED <<limit, scraper_client, llm_client, url_index, count, scraped,
                   raising, url_failed, nonscrape>>

\* Line 89 raises: fetch gave up.
SourceFetchFail ==
    /\ FetchNextSource
    /\ HandleSourceFailure(url_index + 1, "fetch")
    /\ UNCHANGED <<limit, scraper_client, llm_client, doc_events, count, scraped,
                   nonscrape>>

\* Line 90 raises: the document cannot be parsed.
SourceParseFail ==
    /\ FetchNextSource
    /\ HandleSourceFailure(url_index + 1, "parse_document")
    /\ UNCHANGED <<limit, scraper_client, llm_client, doc_events, count, scraped,
                   nonscrape>>

\* Lines 92-99 and 110-112 of pipeline.py: the next event of the document;
\* one in the date range is yielded, run appends it to its list, and the
\* inner loop ends when the limit is reached.
SourceNextEvent ==
    /\ rpc = "events"
    /\ doc_events # <<>>
    /\ LET e == Head(doc_events)
       IN  IF e.in_range
           THEN /\ scraped' = Append(scraped, [url |-> e.url, n |-> e.n])
                /\ count' = count + 1
                /\ doc_events' = IF Truthy(limit) /\ count' >= limit.n
                                 THEN <<>> ELSE Tail(doc_events)
           ELSE /\ doc_events' = Tail(doc_events)
                /\ UNCHANGED <<scraped, count>>
    /\ UNCHANGED <<limit, rpc, scraper_client, llm_client, url_index, raising,
                   fetches, url_failed, nonscrape>>

\* The events of the document are done: the loop takes the next source.
SourceDocDone ==
    /\ rpc = "events"
    /\ doc_events = <<>>
    /\ url_index' = url_index + 1
    /\ rpc' = "loop"
    /\ UNCHANGED <<limit, scraper_client, llm_client, doc_events, count, scraped,
                   raising, fetches, url_failed, nonscrape>>

\* An exception that no handler of the phase catches (the task of run is
\* cancelled while it waits) leaves the block of line 109.
ScrapeAbort ==
    /\ rpc \in {"loop", "events"}
    /\ raising' = CancelledError
    /\ rpc' = "exit"
    /\ UNCHANGED <<limit, scraper_client, llm_client, url_index, doc_events, count,
                   scraped, fetches, url_failed, nonscrape>>

\* The block of line 109 is left: __aexit__ runs, then the exception goes
\* on, or run returns for want of events (line 121), or phases 2 and 3
\* follow.
ExitScraper ==
    /\ rpc = "exit"
    /\ scraper_client' = aexit(scraper_client)
    /\ rpc' = IF raising # None THEN "raised"
              ELSE IF scraped = <<>> THEN "returned" ELSE "filter"
    /\ UNCHANGED <<limit, llm_client, url_index, doc_events, count, scraped, raising,
                   fetches, url_failed, nonscrape>>

\* Lines 141-149 of pipeline.py: the filter is disabled, or LLMFilter()
\* raises ValueError before a client exists.
LLMFilterSkipped ==
    /\ rpc = "filter"
    /\ rpc' = "embedding"
    /\ UNCHANGED <<limit, scraper_client, llm_client, url_index, doc_events, count,
                   scraped, raising, fetches, url_failed, nonscrape>>

\* Line 137: "async with LLMFilter() as llm_filter", __aenter__ makes the
\* client.
EnterLLMFilter ==
    /\ rpc = "filter"
    /\ llm_client' = "open"
    /\ rpc' = "filtering"
    /\ UNCHANGED <<limit, scraper_client, url_index, doc_events, count, scraped,
                   raising, fetches, url_failed, nonscrape>>

\* Line 138: filter_chunks returns.
LLMFilterReturn ==
    /\ rpc = "filtering"
    /\ rpc' = "filter_exit"
    /\ UNCHANGED <<limit, scraper_client, llm_client, url_index, doc_events, count,
                   scraped, raising, fetches, url_failed, nonscrape>>

\* Line 138: an exception leaves filter_chunks.
LLMFilterRaise ==
    /\ rpc = "filtering"
    /\ raising' = CancelledError
    /\ rpc' = "filter_exit"
    /\ UNCHANGED <<limit, scraper_client, llm_client, url_index, doc_events, count,
                   scraped, fetches, url_failed, nonscrape>>

\* The block of line 137 is left: __aexit__ runs, then the exception goes
\* on or phase 4 follows.
ExitLLMFilter ==
    /\ rpc = "filter_exit"
    /\ llm_client' = aexit(llm_client)
    /\ rpc' = IF raising # None THEN "raised" ELSE "embedding"
    /\ UNCHANGED <<limit, scraper_client, url_index, doc_events, count, scraped,
                   raising, fetches, url_failed, nonscrape>>

ScrapeNext ==
    \/ EnterScraper
    \/ SourceStop
    \/ SourceFetchOk
    \/ SourceFetchFail
    \/ SourceParseFail
    \/ SourceNextEvent
    \/ SourceDocDone
    \/ ScrapeAbort
    \/ ExitScraper
    \/ LLMFilterSkipped
    \/ EnterLLMFilter
    \/ LLMFilterReturn
    \/ LLMFilterRaise
    \/ ExitLLMFilter

\* ------------------------------------------------------------------------
\* Properties of the scrape stream and of the clients (checked under
\* SpecScrape)
\* ------------------------------------------------------------------------
\* The sources whose fetch or parse raised.
FailedSources == {f.url : f \in url_failed}

\* C33: once the scrape phase has ended, by the end of the stream or by an
\* exception, the scraper's client is closed, before phase 3 and whatever
\* follows; every fetch was made with the client open and none is made once
\* the stream has ended; once the filter phase has ended, normally or by an
\* exception, the client of the LLMFilter is closed.
C33_ClientsReleased ==
    /\ [](rpc \in {"filter", "filtering", "filter_exit", "embedding", "returned", "raised"}
            => scraper_client = "closed")
    /\ [](\A i \in 1..Len(fetches) : fetches[i].client = "open")
    /\ [][rpc \notin {"loop"} => fetches' = fetches]_vars
    /\ [](rpc \in {"embedding", "raised"} => llm_client # "open")
    /\ []((rpc \in {"embedding", "raised"} /\ llm_client # "none") => llm_client = "closed")

\* C33 witness: the filter phase ended by an exception after a scrape phase
\* with fetches, and both clients are closed.
C33_Witness ==
    /\ rpc = "raised"
    /\ raising = CancelledError
    /\ fetches # <<>>
    /\ scraper_client = "closed"
    /\ llm_client = "closed"

\* C34: with a limit n given, 0 included, scrape yields at most n events
\* and makes no fetch once n events have been yielded, so the list of run
\* holds at most n events.
C34_LimitRespected ==
    limit.given =>
        /\ Len(scraped) <= limit.n
        /\ count <= limit.n
        /\ \A i \in 1..Len(fetches) : fetches[i].count < limit.n

\* C35: the failure of a source's fetch or parse never leaves scrape and
\* never ends the stream: the source contributes no event, the sources are
\* fetched in list order and, unless the limit is reached or the run is
\* cancelled, every one of them is; the list of run holds the events in
\* source order.
C35_SourceFailuresContained ==
    /\ raising # SourceError
    /\ \A i \in 1..Len(scraped) : scraped[i].url \notin FailedSources
    /\ \A i \in 1..Len(fetches) : fetches[i].url = i
    /\ (rpc \notin {"pending", "loop", "events"} /\ raising = None /\ ~LimitReached)
            => Len(fetches) = MaxSources
    /\ \A i, j \in 1..Len(scraped) :
            i < j => \/ scraped[i].url < scraped[j].url
                     \/ /\ scraped[i].url = scraped[j].url
                        /\ scraped[i].n < scraped[j].n

\* C35 witness: the first source failed, the later ones were fetched, and
\* the stream ended with events of two sources in the list of run.
C35_Witness ==
    /\ rpc = "filter"
    /\ 1 \in FailedSources
    /\ Len(fetches) = MaxSources
    /\ \E i, j \in 1..Len(scraped) : scraped[i].url = 2 /\ scraped[j].url = 3

FilterSpecInit ==
    /\ FilterInit
    /\ FetchDefaults /\ FetchConstructed /\ PipelineDefaults /\ StorageConstructed
    /\ ChunkerDefaults /\ ScrapeDefaults

SpecFilter == FilterSpecInit /\ [][FilterNext]_vars

FetchSpecInit ==
    /\ FetchInit
    /\ FilterConstructed(0) /\ PipelineDefaults /\ StorageConstructed
    /\ ChunkerDefaults /\ ScrapeDefaults

SpecFetch == FetchSpecInit /\ [][FetchNext]_vars

PipelineSpecInit ==
    /\ PipelineInit
    /\ FetchDefaults /\ FetchConstructed /\ FilterConstructed(0) /\ StorageConstructed
    /\ ChunkerDefaults /\ ScrapeDefaults

SpecPipeline == PipelineSpecInit /\ [][PipelineNext]_vars

LongListSpecInit ==
    /\ LongListInit
    /\ FetchDefaults /\ FetchConstructed /\ PipelineDefaults /\ StorageConstructed
    /\ ChunkerDefaults /\ ScrapeDefaults

SpecLongList == LongListSpecInit /\ [][FilterNext]_vars

\* The loop runs every task that is ready, time passes, and every external
\* call returns or fails: no step that can be taken is put off forever.
SpecLongListFair == SpecLongList /\ WF_vars(FilterNext)

StorageSpecInit ==
    /\ StorageConstructed
    /\ FetchDefaults /\ FetchConstructed /\ FilterConstructed(0) /\ PipelineDefaults
    /\ ChunkerDefaults /\ ScrapeDefaults

SpecStorage == StorageSpecInit /\ [][StorageNext]_vars

ChunkerSpecInit ==
    /\ ChunkerInit
    /\ FetchDefaults /\ FetchConstructed /\ FilterConstructed(0) /\ PipelineDefaults
    /\ StorageConstructed /\ ScrapeDefaults

SpecChunker == ChunkerSpecInit /\ [][ChunkerNext]_vars

ScrapeSpecInit ==
    /\ ScrapeInit
    /\ FetchDefaults /\ FetchConstructed /\ FilterConstructed(0) /\ PipelineDefaults
    /\ StorageConstructed /\ ChunkerDefaults

SpecScrape == ScrapeSpecInit /\ [][ScrapeNext]_vars

Init ==
    /\ FetchInit /\ FilterInit /\ PipelineInit /\ StorageConstructed /\ ChunkerInit
    /\ ScrapeInit

Next ==
    \/ FetchNext
    \/ FilterNext
    \/ PipelineNext
    \/ StorageNext
    \/ ChunkerNext
    \/ ScrapeNext

Spec == Init /\ [][Next]_vars
====
